---- MODULE Spec2Model ----
(***************************************************************************)
(* A model of ozz-animation-rs: the animation archive loader and keyframe  *)
(* codec (src/src/animation.rs) and the two bone IK job                    *)
(* (src/src/ik_two_bone_job.rs).                                           *)
(*                                                                         *)
(* Five specifications share the variables:                                *)
(*   SpecLoad   Animation::read consuming an archive, one read at a time,  *)
(*              then readers calling the accessors of the Animation        *)
(*   SpecKey    one QuaternionKey made, read and decompressed              *)
(*   SpecBatch  four keys decompressed one by one and four at once         *)
(*   SpecIK     IKTwoBoneJob setters, clears and run                       *)
(*   SpecSolve  one run on each job the setters can build                  *)
(* Each specification leaves the other components' variables at rest.      *)
(***************************************************************************)
EXTENDS Integers, Sequences, FiniteSets, TLC

VARIABLES
    archive,    \* IArchive: the items still to be served, as written on the wire
    pos,        \* IArchive: index of the next item to read
    pc,         \* Animation::read: the statement about to execute
    local,      \* Animation::read: its local variables
    readLog,    \* every primitive read issued, in order, with its outcome
    result,     \* what Animation::read returned to its caller
    overflow_checks, \* the build: TRUE when integer overflow panics (debug), FALSE when it wraps
    seen,       \* per accessor of the loaded Animation, the outcomes its callers have observed
    reads,      \* how many accessor calls the readers have made
    keyOrigin,  \* how the QuaternionKey under study was made: "none", "new", "read"
    wire,       \* the wire fields <<track, largest, sign, value>> it was read from
    key,        \* the QuaternionKey under study
    quat,       \* key.decompress(), once computed (<<>> before)
    batchKind,  \* the four keys of a batched decode: "quat", "float3" or "none"
    batchKeys,  \* k0..k3
    scalarOut,  \* <<k0.decompress(), .., k3.decompress()>>, once computed
    soaOut,     \* the SoA buffer simd_decompress filled, once computed
    job,        \* the IKTwoBoneJob: its nine inputs and three outputs
    lastOp,     \* the operation the job went through last
    runResult,  \* what the last call of IKTwoBoneJob::run returned
    softened,   \* what soften_target returned to that call, if it got there
    ops,        \* how many operations the job has been through
    recip       \* the build: whether f32x4::recip is 1 / x or the estimate of the
                \* CPU, and what the estimate has come to for each argument so far

\* The build and the readers of the loaded Animation.
readerVars == <<overflow_checks, seen, reads>>

loadVars == <<archive, pos, pc, local, readLog, result, readerVars>>

keyVars == <<keyOrigin, wire, key, quat>>

batchVars == <<batchKind, batchKeys, scalarOut, soaOut>>

ikVars == <<job, lastOp, runResult, softened, ops, recip>>

vars == <<archive, pos, pc, local, readLog, result, overflow_checks, seen, reads, keyOrigin, wire, key, quat,
          batchKind, batchKeys, scalarOut, soaOut, job, lastOp, runResult, softened,
          ops, recip>>

\* What an operation of one component leaves alone: the other components.
notLoadVars == <<keyVars, batchVars, ikVars>>

notKeyVars == <<loadVars, batchVars, ikVars>>

notBatchVars == <<loadVars, keyVars, ikVars>>

notIKVars == <<loadVars, keyVars, batchVars>>

(***************************************************************************)
(* Bounds of the model.                                                    *)
(***************************************************************************)
\* Largest translation / rotation / scale count of a modelled archive.
MaxKeys == 2
\* Largest name_len of a modelled archive.
MaxNameLen == 1

\* Accessor calls made on one loaded Animation.
MaxReads == 2

(***************************************************************************)
(* Fixed-width integer helpers (u16 / u8 arithmetic of the key bit field). *)
(***************************************************************************)
RECURSIVE BitAnd(_, _)
BitAnd(a, b) ==
    IF a = 0 \/ b = 0 THEN 0
    ELSE (a % 2) * (b % 2) + 2 * BitAnd(a \div 2, b \div 2)

RECURSIVE BitOr(_, _)
BitOr(a, b) ==
    IF a = 0 THEN b
    ELSE IF b = 0 THEN a
    ELSE (IF (a % 2) + (b % 2) > 0 THEN 1 ELSE 0) + 2 * BitOr(a \div 2, b \div 2)

RECURSIVE Pow2(_)
Pow2(n) == IF n = 0 THEN 1 ELSE 2 * Pow2(n - 1)

\* u16 << n : bits shifted out of the 16-bit word are lost.
Shl16(a, n) == (a * Pow2(n)) % 65536

\* u16 >> n
Shr16(a, n) == a \div Pow2(n)

(***************************************************************************)
(* QuaternionKey: { ratio, bit_field: u16, value: [i16; 3] }               *)
(***************************************************************************)
QuaternionKey_new(ratio, bit_field, value) ==
    [ratio |-> ratio, bit_field |-> bit_field, value |-> value]

track(k) == Shr16(k.bit_field, 3)

\* largest() without its mask: every bit above the sign.
largest_NoMask(k) == Shr16(k.bit_field, 1)

\* largest() masking the two low bits (0x3 for 0x6).
largest_WrongMask(k) == Shr16(BitAnd(k.bit_field, 3), 1)

largest(k) == Shr16(BitAnd(k.bit_field, 6), 1)

sign(k) == BitAnd(k.bit_field, 1)

Float3Key_new(ratio, trk, value) ==
    [ratio |-> ratio, track |-> trk, value |-> value]

(***************************************************************************)
(* The archive.  An item is one primitive as the writer laid it out:       *)
(*   sec/idx/fld  which field of the wire layout the item is               *)
(*   v            its value                                                *)
(*   bad          TRUE when the primitive cannot be decoded                *)
(* A read past the last item is a short read.                              *)
(***************************************************************************)
Item(sec, idx, fld, v) == [sec |-> sec, idx |-> idx, fld |-> fld, v |-> v, bad |-> FALSE]

Want(sec, idx, fld) == [sec |-> sec, idx |-> idx, fld |-> fld]

\* One primitive read at position p asking for field w.
\* The log entry records what was asked for, what the wire held there and
\* whether the read succeeded.
ArchiveRead(a, p, w) ==
    IF p > Len(a)
    THEN [ok |-> FALSE, v |-> 0, pos |-> p,
          ev |-> [want |-> w, got |-> Want("eof", 0, "eof"), ok |-> FALSE]]
    ELSE IF a[p].bad
    THEN [ok |-> FALSE, v |-> 0, pos |-> p,
          ev |-> [want |-> w, got |-> Want(a[p].sec, a[p].idx, a[p].fld), ok |-> FALSE]]
    ELSE [ok |-> TRUE, v |-> a[p].v, pos |-> p + 1,
          ev |-> [want |-> w, got |-> Want(a[p].sec, a[p].idx, a[p].fld), ok |-> TRUE]]

\* A run of primitive reads, each followed by `?`: the first failure ends
\* the run and no later field is read.
RECURSIVE ReadSeq(_, _, _)
ReadSeq(a, p, ws) ==
    IF ws = <<>> THEN [ok |-> TRUE, vals |-> <<>>, pos |-> p, log |-> <<>>]
    ELSE LET r == ArchiveRead(a, p, Head(ws))
         IN  IF ~r.ok
             THEN [ok |-> FALSE, vals |-> <<>>, pos |-> r.pos, log |-> <<r.ev>>]
             ELSE LET rest == ReadSeq(a, r.pos, Tail(ws))
                  IN  [ok   |-> rest.ok,
                       vals |-> <<r.v>> \o rest.vals,
                       pos  |-> rest.pos,
                       log  |-> <<r.ev>> \o rest.log]

\* impl ArchiveReader<Float3Key> for Float3Key
Float3Key_read(a, p, sec, i) ==
    LET r == ReadSeq(a, p, <<Want(sec, i, "ratio"), Want(sec, i, "track"),
                             Want(sec, i, "value0"), Want(sec, i, "value1"),
                             Want(sec, i, "value2")>>)
    IN  IF r.ok
        THEN [ok |-> TRUE, pos |-> r.pos, log |-> r.log,
              key |-> Float3Key_new(r.vals[1], r.vals[2],
                                    <<r.vals[3], r.vals[4], r.vals[5]>>)]
        ELSE [ok |-> FALSE, pos |-> r.pos, log |-> r.log]

\* The packing with a 12-bit track mask (0x0FFF for 0x1FFF).
PackBitField_NarrowTrack(wtrack, wlargest, wsign) ==
    BitOr(BitOr(Shl16(BitAnd(wtrack, 4095), 3),
                Shl16(BitAnd(wlargest, 3), 1)),
          BitAnd(wsign, 1))

\* The packing with largest left unmasked (largest as u16 << 1).
PackBitField_LargestUnmasked(wtrack, wlargest, wsign) ==
    BitOr(BitOr(Shl16(BitAnd(wtrack, 8191), 3),
                Shl16(wlargest, 1)),
          BitAnd(wsign, 1))

\* The bit field QuaternionKey::read packs from the wire's separate fields:
\* ((track & 0x1FFF) << 3) | ((largest as u16 & 0x3) << 1) | (sign as u16 & 0x1)
PackBitField(wtrack, wlargest, wsign) ==
    BitOr(BitOr(Shl16(BitAnd(wtrack, 8191), 3),
                Shl16(BitAnd(wlargest, 3), 1)),
          BitAnd(wsign, 1))

\* QuaternionKey::read with the `?` of its reads dropped: a failed read
\* yields a zeroed key instead of ending the call.
QuaternionKey_read_NoPropagate(a, p, sec, i) ==
    LET r == ReadSeq(a, p, <<Want(sec, i, "ratio"), Want(sec, i, "track"),
                             Want(sec, i, "largest"), Want(sec, i, "sign"),
                             Want(sec, i, "value0"), Want(sec, i, "value1"),
                             Want(sec, i, "value2")>>)
    IN  [ok |-> TRUE, pos |-> r.pos, log |-> r.log,
         key |-> IF r.ok
                 THEN QuaternionKey_new(r.vals[1],
                                        PackBitField(r.vals[2], r.vals[3], r.vals[4]),
                                        <<r.vals[5], r.vals[6], r.vals[7]>>)
                 ELSE QuaternionKey_new(0, 0, <<0, 0, 0>>)]

\* impl ArchiveReader<QuaternionKey> for QuaternionKey
QuaternionKey_read(a, p, sec, i) ==
    LET r == ReadSeq(a, p, <<Want(sec, i, "ratio"), Want(sec, i, "track"),
                             Want(sec, i, "largest"), Want(sec, i, "sign"),
                             Want(sec, i, "value0"), Want(sec, i, "value1"),
                             Want(sec, i, "value2")>>)
    IN  IF r.ok
        THEN [ok |-> TRUE, pos |-> r.pos, log |-> r.log,
              key |-> QuaternionKey_new(r.vals[1],
                                        PackBitField(r.vals[2], r.vals[3], r.vals[4]),
                                        <<r.vals[5], r.vals[6], r.vals[7]>>)]
        ELSE [ok |-> FALSE, pos |-> r.pos, log |-> r.log]

(***************************************************************************)
(* Archives of the model: the wire layout of section 6, written by a       *)
(* well-behaved or a foreign writer, then truncated or corrupted.          *)
(***************************************************************************)
\* impl ArchiveTag for Animation
AnimationTag == "ozz-animation"

\* impl ArchiveVersion for Animation
AnimationVersion == 6

TagSamples == {"ozz-animation", "ozz-skeleton"}
VersionSamples == {5, 6, 7}
\* duration in tenths of a second
DurationSample == 86
\* 67 tracks (the crossarms fixture), and the counts a foreign writer can
\* put on the wire: none, negative ones, the largest.
TrackCountSamples == {67, 0, -1, -4, 2147483647}

ForeignTrackCounts == TrackCountSamples \ {67}

\* The name lengths on the wire: those of names up to MaxNameLen bytes, and
\* a negative one, which a foreign writer can put.
NameLenSamples == 0..MaxNameLen \cup {-1}

ForeignNameLens == {nl \in NameLenSamples : nl < 0}

\* Wire rotation keys <<track, largest, sign, value>>; the last one carries
\* bits the in-memory bit field has no room for.
WireRotationSamples ==
    { <<0, 2, 1, <<-22775, -23568, 21224>> >>,
      <<63, 3, 0, <<0, 0, -2311>> >>,
      <<8197, 6, 3, <<396, 409, 282>> >> }

\* ratio in thousandths: the first key of a section sits at 0, the others at 1.
WireRatio(i) == IF i = 1 THEN 0 ELSE 1000

WireFloat3Key(sec, i) ==
    << Item(sec, i, "ratio", WireRatio(i)), Item(sec, i, "track", i - 1),
       Item(sec, i, "value0", 15360), Item(sec, i, "value1", 15400),
       Item(sec, i, "value2", 43950 + i) >>

WireQuaternionKey(sec, i, w) ==
    << Item(sec, i, "ratio", WireRatio(i)), Item(sec, i, "track", w[1]),
       Item(sec, i, "largest", w[2]), Item(sec, i, "sign", w[3]),
       Item(sec, i, "value0", w[4][1]), Item(sec, i, "value1", w[4][2]),
       Item(sec, i, "value2", w[4][3]) >>

RECURSIVE WireFloat3Keys(_, _)
WireFloat3Keys(sec, n) ==
    IF n = 0 THEN <<>> ELSE WireFloat3Keys(sec, n - 1) \o WireFloat3Key(sec, n)

RECURSIVE WireQuaternionKeys(_, _, _)
WireQuaternionKeys(sec, n, w) ==
    IF n = 0 THEN <<>>
    ELSE WireQuaternionKeys(sec, n - 1, w) \o WireQuaternionKey(sec, n, w)

WireName(n) == [i \in 1..n |-> Item("name", i, "byte", 96 + i)]

WireArchive(tag, ver, tc, nl, nt, nr, ns, w) ==
    << Item("header", 0, "tag", tag), Item("header", 0, "version", ver),
       Item("header", 0, "duration", DurationSample),
       Item("header", 0, "track_count", tc),
       Item("header", 0, "name_len", nl),
       Item("header", 0, "translation_count", nt),
       Item("header", 0, "rotation_count", nr),
       Item("header", 0, "scale_count", ns) >>
    \o WireName(nl)
    \o WireFloat3Keys("translations", nt)
    \o WireQuaternionKeys("rotations", nr, w)
    \o WireFloat3Keys("scales", ns)

\* The first n items only: the stream ends early.
Truncate(a, n) == SubSeq(a, 1, n)

\* Item n cannot be decoded.
Corrupt(a, n) == [a EXCEPT ![n].bad = TRUE]

(***************************************************************************)
(* Animation::read, one statement at a time.                               *)
(***************************************************************************)
NoLocals ==
    [duration |-> 0, num_tracks |-> 0, name_len |-> 0,
     translation_count |-> 0, rotation_count |-> 0, scale_count |-> 0,
     name |-> <<>>, translations |-> <<>>, rotations |-> <<>>, scales |-> <<>>]

NoResult == [tag |-> "None"]
Err(e) == [tag |-> "Err", err |-> e]
Ok(v) == [tag |-> "Ok", value |-> v]

(***************************************************************************)
(* usize, at the width of a 64 bit target: four limbs of 16 bits, the      *)
(* least significant first.                                                *)
(***************************************************************************)
Limb == 65536

UsizeLimbs == 4

\* `n as usize` of an i32: sign extension to the width of usize, the bits
\* then read as an unsigned number.
i32_as_usize(n) ==
    [i \in 1..UsizeLimbs |->
        IF i = 1 THEN n % Limb
        ELSE IF i = 2 THEN ((n - (n % Limb)) \div Limb) % Limb
        ELSE IF n < 0 THEN Limb - 1 ELSE 0]

\* a + k limb by limb from limb i on, k the carry into it: the wrapped sum
\* and whether a carry left the last limb.
RECURSIVE usize_carry(_, _, _)
usize_carry(a, i, k) ==
    IF i > UsizeLimbs THEN [v |-> a, overflow |-> k # 0]
    ELSE usize_carry([a EXCEPT ![i] = (a[i] + k) % Limb], i + 1, (a[i] + k) \div Limb)

\* usize + : the sum of a and the small number k.  On overflow a build with
\* overflow checks panics, a build without them wraps.
usize_add(a, k, checks) ==
    LET r == usize_carry(a, 1, k)
    IN  IF r.overflow /\ checks THEN [tag |-> "Panic"] ELSE Ok(r.v)

\* a & !0x3
usize_and_not_3(a) == [a EXCEPT ![1] = a[1] - (a[1] % 4)]

\* a / 4
usize_div_4(a) ==
    [i \in 1..UsizeLimbs |->
        (a[i] \div 4) + (IF i < UsizeLimbs THEN (a[i + 1] % 4) * (Limb \div 4) ELSE 0)]

\* IArchive::test_tag: reads the tag string and compares it with T::tag().
test_tag(a, p) ==
    LET r == ArchiveRead(a, p, Want("header", 0, "tag"))
    IN  [ok |-> r.ok, v |-> (r.ok /\ r.v = AnimationTag), pos |-> r.pos, ev |-> r.ev]

\* IArchive::read_version
read_version(a, p) == ArchiveRead(a, p, Want("header", 0, "version"))

\* The smaller of the usize a and the small number n.
usize_min(a, n) ==
    IF (\A i \in 2..UsizeLimbs : a[i] = 0) /\ a[1] <= n THEN a[1] ELSE n

\* IArchive::read_string(len): len bytes, one after the other.  A length
\* beyond what the stream holds reads to the end of the stream and fails
\* there.
read_string(a, p, len) ==
    ReadSeq(a, p, [i \in 1..usize_min(len, Len(a) - p + 2) |-> Want("name", i, "byte")])

\* `return Err(e)` / a failed `?`: the call ends, its locals are dropped.
ReturnErr(e, p, log) ==
    /\ result' = Err(e)
    /\ pc' = "done"
    /\ local' = NoLocals
    /\ pos' = p
    /\ readLog' = readLog \o log
    /\ UNCHANGED <<archive, readerVars, notLoadVars>>

\* A successful statement: on to statement `next` with the locals `l`.
Continue(next, l, p, log) ==
    /\ pc' = next
    /\ local' = l
    /\ pos' = p
    /\ readLog' = readLog \o log
    /\ UNCHANGED <<archive, result, readerVars, notLoadVars>>

\* ReadTag with the tag test's verdict ignored.
ReadTag_NoCheck ==
    /\ pc = "test_tag"
    /\ LET r == test_tag(archive, pos)
       IN  IF ~r.ok THEN ReturnErr("Io", r.pos, <<r.ev>>)
           ELSE Continue("read_version", local, r.pos, <<r.ev>>)

\* if !archive.test_tag::<Self>()? { return Err(OzzError::InvalidTag); }
ReadTag ==
    /\ pc = "test_tag"
    /\ LET r == test_tag(archive, pos)
       IN  IF ~r.ok THEN ReturnErr("Io", r.pos, <<r.ev>>)
           ELSE IF ~r.v THEN ReturnErr("InvalidTag", r.pos, <<r.ev>>)
           ELSE Continue("read_version", local, r.pos, <<r.ev>>)

\* ReadVersion rejecting only the older versions (`<` for `!=`).
ReadVersion_OnlyOlder ==
    /\ pc = "read_version"
    /\ LET r == read_version(archive, pos)
       IN  IF ~r.ok THEN ReturnErr("Io", r.pos, <<r.ev>>)
           ELSE IF r.v < AnimationVersion THEN ReturnErr("InvalidVersion", r.pos, <<r.ev>>)
           ELSE Continue("duration", local, r.pos, <<r.ev>>)

\* let version = archive.read_version()?;
\* if version != Self::version() { return Err(OzzError::InvalidVersion); }
ReadVersion ==
    /\ pc = "read_version"
    /\ LET r == read_version(archive, pos)
       IN  IF ~r.ok THEN ReturnErr("Io", r.pos, <<r.ev>>)
           ELSE IF r.v # AnimationVersion THEN ReturnErr("InvalidVersion", r.pos, <<r.ev>>)
           ELSE Continue("duration", local, r.pos, <<r.ev>>)

\* let <fld>: T = archive.read()?;   the outcome r of the read decides
HeaderStep(r, fld, next) ==
    IF ~r.ok THEN ReturnErr("Io", r.pos, <<r.ev>>)
    ELSE Continue(next, [local EXCEPT ![fld] = r.v], r.pos, <<r.ev>>)

\* let duration: f32 = archive.read()?;
ReadDuration ==
    /\ pc = "duration"
    /\ HeaderStep(ArchiveRead(archive, pos, Want("header", 0, "duration")),
                  "duration", "num_tracks")

\* let num_tracks: i32 = archive.read()?;
ReadNumTracks ==
    /\ pc = "num_tracks"
    /\ HeaderStep(ArchiveRead(archive, pos, Want("header", 0, "track_count")),
                  "num_tracks", "name_len")

\* let name_len: i32 = archive.read()?;
ReadNameLen ==
    /\ pc = "name_len"
    /\ HeaderStep(ArchiveRead(archive, pos, Want("header", 0, "name_len")),
                  "name_len", "translation_count")

\* The translation_count statement reading the rotation count instead.
ReadTranslationCount_Swapped ==
    /\ pc = "translation_count"
    /\ HeaderStep(ArchiveRead(archive, pos, Want("header", 0, "rotation_count")),
                  "rotation_count", "rotation_count")

\* let translation_count: i32 = archive.read()?;
ReadTranslationCount ==
    /\ pc = "translation_count"
    /\ HeaderStep(ArchiveRead(archive, pos, Want("header", 0, "translation_count")),
                  "translation_count", "rotation_count")

\* let rotation_count: i32 = archive.read()?;
ReadRotationCount ==
    /\ pc = "rotation_count"
    /\ HeaderStep(ArchiveRead(archive, pos, Want("header", 0, "rotation_count")),
                  "rotation_count", "scale_count")

\* let scale_count: i32 = archive.read()?;
ReadScaleCount ==
    /\ pc = "scale_count"
    /\ HeaderStep(ArchiveRead(archive, pos, Want("header", 0, "scale_count")),
                  "scale_count", "name")

\* let name: String = archive.read_string(name_len as usize)?;
ReadName ==
    /\ pc = "name"
    /\ LET r == read_string(archive, pos, i32_as_usize(local.name_len))
       IN  IF ~r.ok THEN ReturnErr("Io", r.pos, r.log)
           ELSE Continue("translations", [local EXCEPT !.name = r.vals], r.pos, r.log)

\* IArchive::read_vec(count): T::read(archive)? for each element, one element
\* per step; r is the outcome of reading the next element.  The statement
\* completes when `count` elements have been read.
read_vec_step(at, fld, count, r, next) ==
    IF Len(local[fld]) = count THEN Continue(next, local, pos, <<>>)
    ELSE IF ~r.ok THEN ReturnErr("Io", r.pos, r.log)
    ELSE Continue(at, [local EXCEPT ![fld] = Append(@, r.key)], r.pos, r.log)

\* let translations: Vec<Float3Key> = archive.read_vec(translation_count as usize)?;
ReadTranslations ==
    /\ pc = "translations"
    /\ read_vec_step("translations", "translations", local.translation_count,
                     Float3Key_read(archive, pos, "translations",
                                    Len(local.translations) + 1),
                     "rotations")

\* let rotations: Vec<QuaternionKey> = archive.read_vec(rotation_count as usize)?;
ReadRotations ==
    /\ pc = "rotations"
    /\ read_vec_step("rotations", "rotations", local.rotation_count,
                     QuaternionKey_read(archive, pos, "rotations",
                                        Len(local.rotations) + 1),
                     "scales")

\* let scales: Vec<Float3Key> = archive.read_vec(scale_count as usize)?;
ReadScales ==
    /\ pc = "scales"
    /\ read_vec_step("scales", "scales", local.scale_count,
                     Float3Key_read(archive, pos, "scales", Len(local.scales) + 1),
                     "return")

\* return Ok(Animation { duration, num_tracks: num_tracks as usize, name, ... });
ReturnOk ==
    /\ pc = "return"
    /\ result' = Ok([duration     |-> local.duration,
                     num_tracks   |-> i32_as_usize(local.num_tracks),
                     name         |-> local.name,
                     translations |-> local.translations,
                     rotations    |-> local.rotations,
                     scales       |-> local.scales])
    /\ pc' = "done"
    /\ local' = NoLocals
    /\ UNCHANGED <<archive, pos, readLog, readerVars, notLoadVars>>

(***************************************************************************)
(* The accessors of Animation, and readers calling them on the Animation   *)
(* a load returned.                                                        *)
(***************************************************************************)
Animation_duration(a) == Ok(a.duration)

Animation_num_tracks(a) == Ok(a.num_tracks)

\* (self.num_tracks + 3) & !0x3
Animation_num_aligned_tracks(a, checks) ==
    LET sum == usize_add(a.num_tracks, 3, checks)
    IN  IF sum.tag = "Panic" THEN sum ELSE Ok(usize_and_not_3(sum.value))

\* (self.num_tracks + 3) / 4
Animation_num_soa_tracks(a, checks) ==
    LET sum == usize_add(a.num_tracks, 3, checks)
    IN  IF sum.tag = "Panic" THEN sum ELSE Ok(usize_div_4(sum.value))

Animation_name(a) == Ok(a.name)

Animation_translations(a) == Ok(a.translations)

Animation_rotations(a) == Ok(a.rotations)

Animation_scales(a) == Ok(a.scales)

\* Nothing observed yet.
NothingSeen ==
    [duration |-> {}, num_tracks |-> {}, num_aligned_tracks |-> {},
     num_soa_tracks |-> {}, name |-> {}, translations |-> {}, rotations |-> {},
     scales |-> {}]

\* Animation::read has returned an Animation, which readers now share.
Loaded == pc = "done" /\ result.tag = "Ok"

\* A reader has called an accessor and observed `outcome`; the accessors
\* take &self, so the call leaves the Animation alone.
Observed(seenAfter) ==
    /\ seen' = seenAfter
    /\ reads' = reads + 1
    /\ UNCHANGED <<archive, pos, pc, local, readLog, result, overflow_checks,
                   notLoadVars>>

\* A call of num_aligned_tracks that keeps the aligned count in num_tracks.
CallNumAlignedTracks_StoresBack ==
    /\ Loaded
    /\ reads < MaxReads
    /\ \E r \in {Animation_num_aligned_tracks(result.value, overflow_checks)} :
          /\ seen' = [seen EXCEPT !.num_aligned_tracks = @ \cup {r}]
          /\ result' = IF r.tag = "Ok"
                       THEN Ok([result.value EXCEPT !.num_tracks = r.value])
                       ELSE result
    /\ reads' = reads + 1
    /\ UNCHANGED <<archive, pos, pc, local, readLog, overflow_checks, notLoadVars>>

\* animation.duration()
CallDuration ==
    /\ Loaded
    /\ reads < MaxReads
    /\ Observed([seen EXCEPT !.duration = @ \cup {Animation_duration(result.value)}])

\* animation.num_tracks()
CallNumTracks ==
    /\ Loaded
    /\ reads < MaxReads
    /\ Observed([seen EXCEPT !.num_tracks = @ \cup {Animation_num_tracks(result.value)}])

\* animation.num_aligned_tracks()
CallNumAlignedTracks ==
    /\ Loaded
    /\ reads < MaxReads
    /\ Observed([seen EXCEPT !.num_aligned_tracks =
                     @ \cup {Animation_num_aligned_tracks(result.value, overflow_checks)}])

\* animation.num_soa_tracks()
CallNumSoaTracks ==
    /\ Loaded
    /\ reads < MaxReads
    /\ Observed([seen EXCEPT !.num_soa_tracks =
                     @ \cup {Animation_num_soa_tracks(result.value, overflow_checks)}])

\* animation.name()
CallName ==
    /\ Loaded
    /\ reads < MaxReads
    /\ Observed([seen EXCEPT !.name = @ \cup {Animation_name(result.value)}])

\* animation.translations()
CallTranslations ==
    /\ Loaded
    /\ reads < MaxReads
    /\ Observed([seen EXCEPT !.translations = @ \cup {Animation_translations(result.value)}])

\* animation.rotations()
CallRotations ==
    /\ Loaded
    /\ reads < MaxReads
    /\ Observed([seen EXCEPT !.rotations = @ \cup {Animation_rotations(result.value)}])

\* animation.scales()
CallScales ==
    /\ Loaded
    /\ reads < MaxReads
    /\ Observed([seen EXCEPT !.scales = @ \cup {Animation_scales(result.value)}])

\* The components at rest.
NoKey == QuaternionKey_new(0, 0, <<0, 0, 0>>)

IdleLoad ==
    /\ archive = <<>>
    /\ pos = 1
    /\ pc = "idle"
    /\ local = NoLocals
    /\ readLog = <<>>
    /\ result = NoResult
    /\ overflow_checks = FALSE
    /\ seen = NothingSeen
    /\ reads = 0

IdleKey ==
    /\ keyOrigin = "none"
    /\ wire = <<>>
    /\ key = NoKey
    /\ quat = <<>>

IdleBatch ==
    /\ batchKind = "none"
    /\ batchKeys = <<>>
    /\ scalarOut = <<>>
    /\ soaOut = <<>>

\* No IKTwoBoneJob has been constructed.
IdleIK ==
    /\ job = <<>>
    /\ lastOp = "none"
    /\ runResult = NoResult
    /\ softened = NoResult
    /\ ops = 0
    /\ recip = NoResult

InitLoad ==
    /\ IdleKey
    /\ IdleBatch
    /\ IdleIK
    /\ \E tag \in TagSamples, ver \in VersionSamples, tc \in TrackCountSamples,
          nl \in NameLenSamples, nt \in 0..MaxKeys, nr \in 0..MaxKeys,
          ns \in 0..MaxKeys, w \in WireRotationSamples :
          LET full == WireArchive(tag, ver, tc, nl, nt, nr, ns, w)
          IN  \* the track counts a foreign writer puts come with the
              \* largest name and sections only
              /\ tc \in ForeignTrackCounts =>
                      nl = MaxNameLen /\ nt = MaxKeys /\ nr = MaxKeys /\ ns = MaxKeys
              \* and so does the name length of a foreign writer
              /\ nl \in ForeignNameLens =>
                      tc = 67 /\ nt = MaxKeys /\ nr = MaxKeys /\ ns = MaxKeys
              /\ \/ /\ archive = full
                    /\ overflow_checks \in BOOLEAN
                 \* the damaged archives are read by the build that wraps
                 \/ /\ \/ \E n \in 0..(Len(full) - 1) : archive = Truncate(full, n)
                       \/ \E n \in 1..Len(full) : archive = Corrupt(full, n)
                    /\ overflow_checks = FALSE
    /\ pos = 1
    /\ pc = "test_tag"
    /\ local = NoLocals
    /\ readLog = <<>>
    /\ result = NoResult
    /\ seen = NothingSeen
    /\ reads = 0

NextLoad ==
    \/ ReadTag
    \/ ReadVersion
    \/ ReadDuration
    \/ ReadNumTracks
    \/ ReadNameLen
    \/ ReadTranslationCount
    \/ ReadRotationCount
    \/ ReadScaleCount
    \/ ReadName
    \/ ReadTranslations
    \/ ReadRotations
    \/ ReadScales
    \/ ReturnOk
    \/ CallDuration
    \/ CallNumTracks
    \/ CallNumAlignedTracks
    \/ CallNumSoaTracks
    \/ CallName
    \/ CallTranslations
    \/ CallRotations
    \/ CallScales

SpecLoad == InitLoad /\ [][NextLoad]_vars

(***************************************************************************)
(* Properties of the loader.                                               *)
(***************************************************************************)
SomeReadFailed == \E i \in 1..Len(readLog) : ~readLog[i].ok

\* The wire's header counts, for an archive whose header is whole.
HeaderWhole == Len(archive) >= 8 /\ \A i \in 1..8 : ~archive[i].bad

\* C1: deserialization is all-or-nothing.  Once any read has failed the call
\* has returned, and what it returned is the stream error alone: no
\* Animation, whole or partial.  An Animation is returned only when no read
\* failed, and then every sequence holds as many keys as the header counted.
C1_AllOrNothing ==
    /\ SomeReadFailed => (pc = "done" /\ result = Err("Io"))
    /\ result.tag = "Ok" =>
          /\ ~SomeReadFailed
          /\ HeaderWhole
          /\ Len(result.value.name) = archive[5].v
          /\ Len(result.value.translations) = archive[6].v
          /\ Len(result.value.rotations) = archive[7].v
          /\ Len(result.value.scales) = archive[8].v
    /\ result.tag \in {"None", "Err", "Ok"}
    /\ result.tag = "None" <=> pc # "done"

\* A read inside a rotation key failed after the key's first fields had
\* been read, and the call returned the error.
C1_Witness ==
    /\ pc = "done"
    /\ result.tag = "Err"
    /\ \E i \in 1..Len(readLog) :
          /\ ~readLog[i].ok
          /\ readLog[i].want.sec = "rotations"
          /\ readLog[i].want.fld = "value1"
          /\ readLog[i].want.idx = 2

TagReadable == Len(archive) >= 1 /\ ~archive[1].bad

\* C2: when the archive's tag is not "ozz-animation" the call returns
\* InvalidTag and the tag is the only thing ever read: the version and
\* every later field are never asked for.
C2_InvalidTagStops ==
    (TagReadable /\ archive[1].v # "ozz-animation") =>
        /\ pc \in {"test_tag", "done"}
        /\ Len(readLog) <= 1
        /\ pos <= 2
        /\ pc = "done" =>
              /\ result = Err("InvalidTag")
              /\ Len(readLog) = 1
              /\ readLog[1].want.fld = "tag"
              /\ pos = 2

\* A foreign tag was read from an archive that holds more after it, and the
\* call has returned.
C2_Witness ==
    /\ TagReadable
    /\ archive[1].v = "ozz-skeleton"
    /\ Len(archive) > 9
    /\ pc = "done"
    /\ result = Err("InvalidTag")

VersionReadable == TagReadable /\ Len(archive) >= 2 /\ ~archive[2].bad

\* C3: with a matching tag, any version other than 6 returns InvalidVersion
\* with nothing read after the version; the duration is read only when the
\* version is 6.
C3_InvalidVersionStops ==
    /\ (VersionReadable /\ archive[1].v = "ozz-animation" /\ archive[2].v # 6) =>
          /\ pc \in {"test_tag", "read_version", "done"}
          /\ Len(readLog) <= 2
          /\ pc = "done" =>
                /\ result = Err("InvalidVersion")
                /\ Len(readLog) = 2
                /\ readLog[2].want.fld = "version"
                /\ pos = 3
    /\ (\E i \in 1..Len(readLog) : readLog[i].want.fld = "duration") =>
          (VersionReadable /\ archive[2].v = 6)
    /\ (VersionReadable /\ archive[1].v = "ozz-animation" /\ archive[2].v = 6
        /\ pc = "done") =>
          \E i \in 1..Len(readLog) : readLog[i].want.fld = "duration"

\* A newer version (7) was read from an archive that holds more after it,
\* and the call has returned.
C3_Witness ==
    /\ VersionReadable
    /\ archive[1].v = "ozz-animation"
    /\ archive[2].v = 7
    /\ Len(archive) > 9
    /\ pc = "done"
    /\ result = Err("InvalidVersion")

\* The order of reads the wire contract prescribes, for the given counts.
C4_KeyFields(sec, i, flds) == [j \in 1..Len(flds) |-> Want(sec, i, flds[j])]

RECURSIVE C4_Keys(_, _, _)
C4_Keys(sec, n, flds) ==
    IF n = 0 THEN <<>> ELSE C4_Keys(sec, n - 1, flds) \o C4_KeyFields(sec, n, flds)

C4_Order(nl, nt, nr, ns) ==
    [j \in 1..8 |->
        Want("header", 0,
             <<"tag", "version", "duration", "track_count", "name_len",
               "translation_count", "rotation_count", "scale_count">>[j])]
    \o [j \in 1..nl |-> Want("name", j, "byte")]
    \o C4_Keys("translations", nt, <<"ratio", "track", "value0", "value1", "value2">>)
    \o C4_Keys("rotations", nr,
               <<"ratio", "track", "largest", "sign", "value0", "value1", "value2">>)
    \o C4_Keys("scales", ns, <<"ratio", "track", "value0", "value1", "value2">>)

\* C4: on every successful load the reads were issued in exactly the wire
\* order (header fields, the three counts, name bytes, translation keys,
\* rotation keys, scale keys), each read consumed the item of the wire that
\* holds that field, and item i was consumed by read i: nothing is read
\* twice or out of order.
C4_ReadOrder ==
    result.tag = "Ok" =>
        LET order == C4_Order(archive[5].v, archive[6].v, archive[7].v, archive[8].v)
        IN  /\ Len(readLog) = Len(order)
            /\ \A i \in 1..Len(readLog) :
                  /\ readLog[i].ok
                  /\ readLog[i].want = order[i]
                  /\ readLog[i].got = order[i]
                  /\ readLog[i].got = Want(archive[i].sec, archive[i].idx, archive[i].fld)
            /\ pos = Len(readLog) + 1

\* A load succeeded on an archive with a name and keys in all three
\* sequences.
C4_Witness ==
    /\ result.tag = "Ok"
    /\ Len(result.value.name) >= 1
    /\ Len(result.value.translations) >= 2
    /\ Len(result.value.rotations) >= 1
    /\ Len(result.value.scales) >= 1

(***************************************************************************)
(* f32 arithmetic, bit for bit.  A finite f32 is [s, m, e]: sign bit,      *)
(* 24-bit significand 2^23 <= m < 2^24 and exponent, standing for          *)
(* (-1)^s * m * 2^e; zero is m = 0, e = 0.  Every value decompress         *)
(* computes lies between 1e-16 and 1e8 in magnitude, within the normal     *)
(* range, so subnormals, infinities and NaN do not arise.  Results are     *)
(* rounded to nearest, ties to even, as IEEE 754 prescribes.  Operands are *)
(* split so that no intermediate value needs more than 31 bits.            *)
(***************************************************************************)
Two23 == 8388608
Two24 == 16777216

F32(s, m, e) == [s |-> s, m |-> m, e |-> e]

F32Zero == F32(0, 0, 0)

\* 1.0f32
F32One == F32(0, Two23, -23)

\* The significand m (below 2^25) and exponent e, rounded up when `up`,
\* brought back into [2^23, 2^24).
F32Round(s, m, e, up) ==
    LET m1 == IF up THEN m + 1 ELSE m
    IN  IF m1 >= Two24 THEN F32(s, m1 \div 2, e + 1) ELSE F32(s, m1, e)

\* Round to nearest, ties to even: rem of `unit` is what the significand m
\* leaves out.
RoundsUp(m, rem, unit) == 2 * rem > unit \/ (2 * rem = unit /\ m % 2 = 1)

\* A positive integer below 2^24 with exponent e, normalised (exact).
RECURSIVE F32Normal(_, _, _)
F32Normal(s, n, e) ==
    IF n = 0 THEN F32Zero
    ELSE IF n < Two23 THEN F32Normal(s, 2 * n, e - 1)
    ELSE F32(s, n, e)

\* n as f32, for an i16 n (exact)
F32FromInt(n) == IF n < 0 THEN F32Normal(1, -n, 0) ELSE F32Normal(0, n, 0)

\* a * b
F32Mul(a, b) ==
    IF a.m = 0 \/ b.m = 0 THEN F32(IF a.s = b.s THEN 0 ELSE 1, 0, 0)
    ELSE LET s == IF a.s = b.s THEN 0 ELSE 1
             a1 == a.m \div 4096
             a0 == a.m % 4096
             b1 == b.m \div 4096
             b0 == b.m % 4096
             mid == a1 * b0 + a0 * b1
             lowfull == (mid % 4096) * 4096 + a0 * b0
             lo == lowfull % Two24
             hi == a1 * b1 + mid \div 4096 + lowfull \div Two24
         IN  IF hi >= Two23
             THEN F32Round(s, hi, a.e + b.e + 24, RoundsUp(hi, lo, Two24))
             ELSE LET m == 2 * hi + lo \div Two23
                  IN  F32Round(s, m, a.e + b.e + 23, RoundsUp(m, lo % Two23, Two23))

\* a + b for a, b >= 0, with a.e >= b.e
F32AddOrdered(a, b) ==
    LET d == a.e - b.e
    IN  IF d > 25 THEN a
        ELSE LET unit == Pow2(d)
                 q == b.m \div unit
                 r == b.m % unit
                 sum == a.m + q
             IN  IF sum < Two24
                 THEN F32Round(0, sum, a.e, RoundsUp(sum, r, unit))
                 ELSE LET m == sum \div 2
                          rem == (sum % 2) * unit + r
                      IN  F32Round(0, m, a.e + 1, RoundsUp(m, rem, 2 * unit))

\* a + b for a, b >= 0
F32Add(a, b) ==
    IF a.m = 0 THEN b
    ELSE IF b.m = 0 THEN a
    ELSE IF a.e >= b.e THEN F32AddOrdered(a, b)
    ELSE F32AddOrdered(b, a)

\* 1.0 - d for d >= 0
F32OneMinus(d) ==
    IF d.m = 0 THEN F32One
    ELSE IF d.e >= -23
    THEN \* d >= 1: the difference d - 1 is exact
         F32Normal(1, d.m - Two23 \div Pow2(d.e + 23), d.e)
    ELSE IF d.e = -24
    THEN \* 1/2 <= d < 1: exact
         F32Normal(0, Two24 - d.m, -24)
    ELSE \* d < 1/2: 1 - d lies in (1/2, 1], one unit is 2^-24
         LET sh == -24 - d.e
         IN  IF sh > 25 THEN F32One
             ELSE LET unit == Pow2(sh)
                      q == d.m \div unit
                      r == d.m % unit
                  IN  IF r = 0 THEN F32Round(0, Two24 - q, -24, FALSE)
                      ELSE LET m == Two24 - q - 1
                           IN  F32Round(0, m, -24, RoundsUp(m, unit - r, unit))

\* a < b for a, b >= 0
F32Lt(a, b) ==
    IF b.m = 0 THEN FALSE
    ELSE IF a.m = 0 THEN TRUE
    ELSE a.e < b.e \/ (a.e = b.e /\ a.m < b.m)

\* f32::max(a, b) for a > 0
F32Max(a, b) ==
    IF b.s = 1 \/ b.m = 0 THEN a
    ELSE IF b.e > a.e \/ (b.e = a.e /\ b.m > a.m) THEN b
    ELSE a

\* The integer square root of hi * 2^24 + lo, two bits at a time:
\* <<root, remainder>> after the pairs i..24.
RECURSIVE SqrtDigits(_, _, _, _, _)
SqrtDigits(hi, lo, i, root, rem) ==
    IF i > 24 THEN <<root, rem>>
    ELSE LET pair == IF i <= 12 THEN (hi \div Pow2(2 * (12 - i))) % 4
                     ELSE (lo \div Pow2(2 * (24 - i))) % 4
             r == 4 * rem + pair
             t == 4 * root + 1
         IN  IF r >= t THEN SqrtDigits(hi, lo, i + 1, 2 * root + 1, r - t)
             ELSE SqrtDigits(hi, lo, i + 1, 2 * root, r)

\* a.sqrt() for a > 0
F32Sqrt(a) ==
    LET even == (a.e % 2 = 0)
        \* a = N * 2^(e - k), N = m * 2^k, k = 24 when e is even, else 23
        hi == IF even THEN a.m ELSE a.m \div 2
        lo == IF even THEN 0 ELSE (a.m % 2) * Two23
        k == IF even THEN 24 ELSE 23
        d == SqrtDigits(hi, lo, 1, 0, 0)
    IN  F32Round(0, d[1], (a.e - k) \div 2, d[2] > d[1])

\* The quotient 2^47 / m, one bit at a time: <<quotient, remainder>>.
RECURSIVE RecipDigits(_, _, _, _)
RecipDigits(m, i, q, r) ==
    IF i > 24 THEN <<q, r>>
    ELSE IF 2 * r >= m THEN RecipDigits(m, i + 1, 2 * q + 1, 2 * r - m)
    ELSE RecipDigits(m, i + 1, 2 * q, 2 * r)

\* 1.0 / a for a > 0
F32Recip(a) ==
    IF a.m = Two23 THEN F32(a.s, Two23, -46 - a.e)
    ELSE LET d == RecipDigits(a.m, 1, 0, Two23)
         IN  F32Round(a.s, d[1], -47 - a.e, RoundsUp(d[1], d[2], a.m))

\* -a
F32Neg(a) == F32(1 - a.s, a.m, a.e)

\* const INT_2_FLOAT: f32 = 1.0f32 / (32767.0f32 * core::f32::consts::SQRT_2)
SQRT_2 == F32(0, 11863283, -23)

INT_2_FLOAT == F32Recip(F32Mul(F32FromInt(32767), SQRT_2))

\* 1e-16f32
SMALL_F32 == F32(0, 15111573, -77)

(***************************************************************************)
(* Numbers of the codec.                                                   *)
(*                                                                         *)
(* decompress works on f32, and so does the model.  A component of a       *)
(* quaternion is a record of                                               *)
(*   f32   the f32 the code holds for it                                   *)
(*   lin   the stored value it was scaled from, 0 for the restored one     *)
(*   ww0   for the restored component, the f32 whose square root it is     *)
(*         (the code's ww0), else 0.0                                      *)
(***************************************************************************)
\* 1 / INT_2_FLOAT^2 = (32767 * sqrt 2)^2
SqScale == 2 * 32767 * 32767

\* (n as f32) * INT_2_FLOAT
Lin(n) == [lin |-> n, ww0 |-> F32Zero, f32 |-> F32Mul(F32FromInt(n), INT_2_FLOAT)]

\* The restored component w, made from ww0
Root(ww0, w) == [lin |-> 0, ww0 |-> ww0, f32 |-> w]

\* The dot product with three of its four terms only.
F32Dot_ThreeTerms(c) ==
    F32Add(F32Add(F32Mul(c[1].f32, c[1].f32), F32Mul(c[2].f32, c[2].f32)),
           F32Mul(c[3].f32, c[3].f32))

\* cpnt[0] * cpnt[0] + cpnt[1] * cpnt[1] + cpnt[2] * cpnt[2] + cpnt[3] * cpnt[3]
\* in f32, added left to right
F32Dot(c) ==
    F32Add(F32Add(F32Add(F32Mul(c[1].f32, c[1].f32), F32Mul(c[2].f32, c[2].f32)),
                  F32Mul(c[3].f32, c[3].f32)),
           F32Mul(c[4].f32, c[4].f32))

\* MAPPING with value[0] and value[1] exchanged in the row of largest = 1.
MAPPING_RowOneSwapped == << <<0, 0, 1, 2>>, <<1, 0, 0, 2>>, <<0, 1, 0, 2>>, <<0, 1, 2, 0>> >>

\* const MAPPING: [[usize; 4]; 4], rows and entries counted from 0
MAPPING == << <<0, 0, 1, 2>>, <<0, 0, 1, 2>>, <<0, 1, 0, 2>>, <<0, 1, 2, 0>> >>

\* QuaternionKey::decompress
QuaternionKey_decompress(k) ==
    LET mask == MAPPING[largest(k) + 1]
        cmp_keys0 == [j \in 1..4 |-> k.value[mask[j] + 1]]
        cmp_keys == [cmp_keys0 EXCEPT ![largest(k) + 1] = 0]
        cpnt == [j \in 1..4 |-> Lin(cmp_keys[j])]
        ww0 == F32Max(SMALL_F32, F32OneMinus(F32Dot(cpnt)))
        w0 == F32Sqrt(ww0)
        restored == Root(ww0, IF sign(k) = 0 THEN w0 ELSE F32Neg(w0))
    IN  [cpnt EXCEPT ![largest(k) + 1] = restored]

(***************************************************************************)
(* One QuaternionKey: made by QuaternionKey::new or read from the wire,    *)
(* then decompressed.                                                      *)
(***************************************************************************)
\* Components of the stored values tried: the i16 extremes, the largest
\* value an encoder emits for a component of magnitude 1/2 (23170), values
\* of the repository's fixtures, and small ones.
ValueComponentSamples == {-32768, -32767, -23170, -195, 0, 1, 396, 23170, 32767}

ValueSamples == {<<396, 409, 282>>, <<32767, 32765, 362>>}
                \cup {<<a, b, c>> : a \in ValueComponentSamples,
                               b \in ValueComponentSamples,
                               c \in ValueComponentSamples}

\* Bit fields tried with every value triple: each largest and sign, for the
\* first and the last track.
BitFieldSamples == {PackBitField(t, l, s) : t \in {0, 8191}, l \in 0..3, s \in 0..1}

\* Every 16-bit field, with one value triple.
AllBitFields == 0..65535

WireTrackSamples == {0, 1, 63, 4096, 8191, 8192, 8197, 65535}
WireLargestSamples == {0, 1, 2, 3, 4, 6, 255}
WireSignSamples == {0, 1, 2, 3, 255}
WireValueSamples == {<<-22775, -23568, 21224>>, <<0, 0, -2311>>}

\* QuaternionKey::new(ratio, bit_field, value)
KeyNew ==
    /\ keyOrigin = "none"
    /\ \E f \in AllBitFields, v \in ValueSamples :
          /\ (f \in BitFieldSamples \/ v = <<396, 409, 282>>)
          /\ key' = QuaternionKey_new(0, f, v)
    /\ keyOrigin' = "new"
    /\ UNCHANGED <<wire, quat, notKeyVars>>

\* QuaternionKey::read(archive) on an archive holding one rotation key
KeyRead ==
    /\ keyOrigin = "none"
    /\ \E t \in WireTrackSamples, l \in WireLargestSamples, s \in WireSignSamples,
          v \in WireValueSamples :
          LET w == <<t, l, s, v>>
              r == QuaternionKey_read(WireQuaternionKey("rotations", 1, w), 1,
                                      "rotations", 1)
          IN  /\ r.ok
              /\ key' = r.key
              /\ wire' = w
    /\ keyOrigin' = "read"
    /\ UNCHANGED <<quat, notKeyVars>>

\* key.decompress()
KeyDecompress ==
    /\ keyOrigin # "none"
    /\ quat = <<>>
    /\ quat' = QuaternionKey_decompress(key)
    /\ UNCHANGED <<keyOrigin, wire, key, notKeyVars>>

InitKey == IdleLoad /\ IdleKey /\ IdleBatch /\ IdleIK

NextKey ==
    \/ KeyNew
    \/ KeyRead
    \/ KeyDecompress

SpecKey == InitKey /\ [][NextKey]_vars

(***************************************************************************)
(* Properties of one key.                                                  *)
(***************************************************************************)
\* C5: a rotation key read from the wire fields track, largest, sign,
\* value[3] with track < 8192, largest <= 3 and sign <= 1 is packed so that
\* track(), largest() and sign() give back the wire track, largest and sign,
\* and its value array is the three wire values in order.
C5_ReadRepacks ==
    (keyOrigin = "read" /\ wire[1] < 8192 /\ wire[2] <= 3 /\ wire[3] <= 1) =>
        /\ track(key) = wire[1]
        /\ largest(key) = wire[2]
        /\ sign(key) = wire[3]
        /\ key.value = wire[4]
        /\ key.bit_field = wire[1] * 8 + wire[2] * 2 + wire[3]

\* A key was read whose wire track, largest and sign are all at the top of
\* their ranges.
C5_Witness ==
    /\ keyOrigin = "read"
    /\ wire[1] = 8191
    /\ wire[2] = 3
    /\ wire[3] = 1
    /\ key.bit_field = 65535

\* C6: for every 16-bit field f, track() = f >> 3, largest() = (f >> 1) & 3
\* and sign() = f & 1; the field is recovered from the three by
\* (track << 3) | (largest << 1) | sign, so distinct fields give distinct
\* triples and a field packed from an in-range triple returns that triple.
C6_AccessorsInvertPacking ==
    keyOrigin # "none" =>
        LET f == key.bit_field
        IN  /\ f \in 0..65535
            /\ track(key) = f \div 8
            /\ largest(key) = (f \div 2) % 4
            /\ sign(key) = f % 2
            /\ f = track(key) * 8 + largest(key) * 2 + sign(key)
            /\ PackBitField(track(key), largest(key), sign(key)) = f
            /\ \A t \in {track(key)}, l \in 0..3, s \in 0..1 :
                  f = t * 8 + l * 2 + s => (largest(key) = l /\ sign(key) = s)

\* A key was made by QuaternionKey::new from a field outside the sampled
\* ones (track 5461, largest 1, sign 0).
C6_Witness ==
    /\ keyOrigin = "new"
    /\ key.bit_field = 43690
    /\ track(key) = 5461
    /\ largest(key) = 1
    /\ sign(key) = 0

\* 1 - (v0^2 + v1^2 + v2^2) / (32767 sqrt 2)^2 for the key's stored values,
\* in units of INT_2_FLOAT^2.
ValueDeficit(k) ==
    SqScale - k.value[1] * k.value[1] - k.value[2] * k.value[2]
            - k.value[3] * k.value[3]

\* The place of a non-negative f32 among the f32 in increasing order: its
\* bit pattern without the sign.
F32Ord(a) == IF a.m = 0 THEN 0 ELSE (a.e + 150) * Two23 + (a.m - Two23)

\* How many f32 lie from a to b, for a and b of the same sign.
UlpDistance(a, b) ==
    IF F32Ord(a) >= F32Ord(b) THEN F32Ord(a) - F32Ord(b) ELSE F32Ord(b) - F32Ord(a)

\* The largest number of f32 by which the squared length of a decompressed
\* unit quaternion, summed in f32, lies from 1.0.
NormUlps == 8

\* Stored values this far within |v|^2 = (32767 sqrt 2)^2, in units of
\* INT_2_FLOAT^2, have an f32 dot product on the same side of 1.0.
DotMargin == 2048

\* The square of the f32 magnitude a.
F32Sq(a) == F32Mul(F32(0, a.m, a.e), F32(0, a.m, a.e))

\* The squared length of q, the squares added in f32 from x to w.
SquaredLength(q) ==
    F32Add(F32Add(F32Add(F32Sq(q[1].f32), F32Sq(q[2].f32)), F32Sq(q[3].f32)),
           F32Sq(q[4].f32))

\* The squared length of q is 1, within the rounding of f32.
NormIsOne(q) == UlpDistance(SquaredLength(q), F32One) <= NormUlps

\* The dot product decompress computes for the key k: the squares of the
\* three scaled stored values, added in f32 in their order.
StoredDot(k) ==
    F32Add(F32Add(F32Sq(Lin(k.value[1]).f32), F32Sq(Lin(k.value[2]).f32)),
           F32Sq(Lin(k.value[3]).f32))

\* C7 as claimed: decompress yields a unit-length quaternion for every key,
\* whatever its three stored values.
C7_UnitLengthForEveryKey ==
    quat # <<>> => NormIsOne(quat)

\* C7 as amended: decompress yields a unit-length quaternion, within the
\* rounding of f32, for the keys whose dot product of the scaled stored
\* values, as the code computes it in f32, is at most 1.0: the restored
\* component is sqrt(1 - dot), or sqrt(1e-16) when dot is 1.0.  For the
\* other keys 1 - dot is negative and gives way to the floor: the restored
\* component is sqrt(1e-16), the stored values pass through unchanged and
\* the squared length is above 1.  Stored values with
\* v0^2 + v1^2 + v2^2 <= (32767 sqrt 2)^2 - DotMargin are of the first
\* kind, those with v0^2 + v1^2 + v2^2 >= (32767 sqrt 2)^2 + DotMargin of
\* the second.
C7_UnitLengthWhenValuesFit ==
    quat # <<>> =>
        LET dot == StoredDot(key)
            r == quat[largest(key) + 1]
        IN  /\ ~F32Lt(F32One, dot) =>
                  /\ NormIsOne(quat)
                  /\ r.ww0 = (IF dot = F32One THEN SMALL_F32 ELSE F32OneMinus(dot))
            /\ F32Lt(F32One, dot) =>
                  /\ r.ww0 = SMALL_F32
                  /\ F32Lt(F32One, SquaredLength(quat))
                  /\ SquaredLength(quat) = dot
            /\ F32(0, r.f32.m, r.f32.e) = F32Sqrt(r.ww0)
            /\ ValueDeficit(key) >= DotMargin => F32Lt(dot, F32One)
            /\ ValueDeficit(key) <= -DotMargin => F32Lt(F32One, dot)

\* A key with three large stored values that still fit was decompressed.
C7_Witness ==
    /\ quat # <<>>
    /\ key.value = <<23170, -23170, 23170>>
    /\ largest(key) = 2
    /\ sign(key) = 1
    /\ ValueDeficit(key) > 0
    /\ F32Lt(StoredDot(key), F32One)
    /\ quat[3].ww0 = F32OneMinus(StoredDot(key))
    /\ NormIsOne(quat)

(***************************************************************************)
(* Half precision values (Float3Key).  math::f16_to_f32 widens an IEEE     *)
(* binary16 to binary32; the result is given by its sign bit, biased       *)
(* exponent and 23-bit mantissa.                                           *)
(***************************************************************************)
\* Position of the highest set bit of m, 0 <= m < 1024, m # 0.
RECURSIVE HighBit(_)
HighBit(m) == IF m < 2 THEN 0 ELSE 1 + HighBit(m \div 2)

f16_to_f32(h) ==
    LET s == h \div 32768
        e == (h \div 1024) % 32
        m == h % 1024
    IN  IF e = 0 /\ m = 0 THEN [s |-> s, e |-> 0, m |-> 0]
        ELSE IF e = 0
        THEN LET p == HighBit(m)
             IN  [s |-> s, e |-> p + 103, m |-> (m - Pow2(p)) * Pow2(23 - p)]
        ELSE IF e = 31 THEN [s |-> s, e |-> 255, m |-> m * 8192]
        ELSE [s |-> s, e |-> e + 112, m |-> m * 8192]

\* math::simd_f16_to_f32: the four lanes widened independently
simd_f16_to_f32(a) == [i \in 1..4 |-> f16_to_f32(a[i])]

\* Float3Key::decompress
Float3Key_decompress(k) ==
    [x |-> f16_to_f32(k.value[1]),
     y |-> f16_to_f32(k.value[2]),
     z |-> f16_to_f32(k.value[3])]

\* Float3Key::simd_decompress
Float3Key_simd_decompress(k0, k1, k2, k3) ==
    [x |-> simd_f16_to_f32(<<k0.value[1], k1.value[1], k2.value[1], k3.value[1]>>),
     y |-> simd_f16_to_f32(<<k0.value[2], k1.value[2], k2.value[2], k3.value[2]>>),
     z |-> simd_f16_to_f32(<<k0.value[3], k1.value[3], k2.value[3], k3.value[3]>>)]

(***************************************************************************)
(* QuaternionKey::simd_decompress.  Rows are components (x, y, z, w),      *)
(* lanes are keys.                                                         *)
(***************************************************************************)
\* The bit pattern of +0.0
ZeroBits == Lin(0)

\* The sign, biased exponent and mantissa fields of an f32
F32Fields(a) ==
    IF a.m = 0 THEN [s |-> a.s, ex |-> 0, mt |-> 0]
    ELSE [s |-> a.s, ex |-> a.e + 150, mt |-> a.m - Two23]

\* a | b on the bit patterns of two f32, field by field
F32Or(a, b) ==
    LET fa == F32Fields(a)
        fb == F32Fields(b)
        s == BitOr(fa.s, fb.s)
        ex == BitOr(fa.ex, fb.ex)
        mt == BitOr(fa.mt, fb.mt)
    IN  IF ex = 0 /\ mt = 0 THEN F32(s, 0, 0) ELSE F32(s, mt + Two23, ex - 150)

\* a | b on two components: OR with all-zero bits leaves the other operand.
\* Two different non-zero patterns mix into an f32 that is the component of
\* no key; the other fields of such a mix are merged and stand for nothing.
OrBits(a, b) ==
    IF b = ZeroBits THEN a
    ELSE IF a = ZeroBits THEN b
    ELSE IF a = b THEN a
    ELSE [lin |-> a.lin + b.lin,
          ww0 |-> F32Or(a.ww0, b.ww0),
          f32 |-> F32Or(a.f32, b.f32)]

\* const MASK_F000, MASK_0F00, MASK_00F0, MASK_000F: lane masks, by key index
LaneMask(i) == [lane \in 1..4 |-> lane = i]

\* v & mask, lane by lane
AndMask(v, mask) == [lane \in 1..4 |-> IF mask[lane] THEN v[lane] ELSE ZeroBits]

\* cpnt[row] = as_f32x4(as_i32x4(cpnt[row]) | (restored & mask))
MergeRestored(cpnt, row, restored, mask) ==
    [cpnt EXCEPT ![row] =
        [lane \in 1..4 |-> OrBits(cpnt[row][lane], AndMask(restored, mask)[lane])]]

\* simd_decompress with every key's restored component merged under the
\* first lane mask.
QuaternionKey_simd_decompress_OneMask(k0, k1, k2, k3) ==
    LET ks == <<k0, k1, k2, k3>>
        m == [i \in 1..4 |-> MAPPING[largest(ks[i]) + 1]]
        cmp_keys == [j \in 1..4 |->
                        [i \in 1..4 |->
                            IF j = largest(ks[i]) + 1 THEN 0
                            ELSE ks[i].value[m[i][j] + 1]]]
        cpnt == [j \in 1..4 |-> [i \in 1..4 |-> Lin(cmp_keys[j][i])]]
        dot == [i \in 1..4 |->
                  F32Dot(<<cpnt[1][i], cpnt[2][i], cpnt[3][i], cpnt[4][i]>>)]
        ww0 == [i \in 1..4 |-> F32Max(SMALL_F32, F32OneMinus(dot[i]))]
        w0 == [i \in 1..4 |-> F32Mul(ww0[i], F32Sqrt(F32Recip(ww0[i])))]
        restored == [i \in 1..4 |->
                       Root(ww0[i], F32Or(w0[i], F32(sign(ks[i]), 0, 0)))]
        c0 == MergeRestored(cpnt, largest(k0) + 1, restored, LaneMask(1))
        c1 == MergeRestored(c0, largest(k1) + 1, restored, LaneMask(1))
        c2 == MergeRestored(c1, largest(k2) + 1, restored, LaneMask(1))
        c3 == MergeRestored(c2, largest(k3) + 1, restored, LaneMask(1))
    IN  [x |-> c3[1], y |-> c3[2], z |-> c3[3], w |-> c3[4]]

\* QuaternionKey::simd_decompress
\*   cmp_keys[j][i] = k_i.value[m_i[j]], then cmp_keys[k_i.largest()][i] = 0
\*   w0 = ww0 * ww0.recip().sqrt(): three roundings in f32 where the
\*        ww0.sqrt() of decompress has one
\*   restored = as_i32x4(w0) | (sign << 31): the sign bit set on a w0 >= 0
QuaternionKey_simd_decompress(k0, k1, k2, k3) ==
    LET ks == <<k0, k1, k2, k3>>
        m == [i \in 1..4 |-> MAPPING[largest(ks[i]) + 1]]
        cmp_keys == [j \in 1..4 |->
                        [i \in 1..4 |->
                            IF j = largest(ks[i]) + 1 THEN 0
                            ELSE ks[i].value[m[i][j] + 1]]]
        cpnt == [j \in 1..4 |-> [i \in 1..4 |-> Lin(cmp_keys[j][i])]]
        dot == [i \in 1..4 |->
                  F32Dot(<<cpnt[1][i], cpnt[2][i], cpnt[3][i], cpnt[4][i]>>)]
        ww0 == [i \in 1..4 |-> F32Max(SMALL_F32, F32OneMinus(dot[i]))]
        w0 == [i \in 1..4 |-> F32Mul(ww0[i], F32Sqrt(F32Recip(ww0[i])))]
        restored == [i \in 1..4 |->
                       Root(ww0[i], F32Or(w0[i], F32(sign(ks[i]), 0, 0)))]
        c0 == MergeRestored(cpnt, largest(k0) + 1, restored, LaneMask(1))
        c1 == MergeRestored(c0, largest(k1) + 1, restored, LaneMask(2))
        c2 == MergeRestored(c1, largest(k2) + 1, restored, LaneMask(3))
        c3 == MergeRestored(c2, largest(k3) + 1, restored, LaneMask(4))
    IN  [x |-> c3[1], y |-> c3[2], z |-> c3[3], w |-> c3[4]]

(***************************************************************************)
(* A batch of four keys, decoded one by one and four at once.              *)
(***************************************************************************)
\* The stored values of k0..k3 tried: the repository's batch fixture, and a
\* row with two keys whose restored component rounds differently one by one
\* and four at once (one and two f32 apart), a key whose squares exceed 1 and
\* three equal large values.
BatchQuatValueRows ==
    {<< <<396, 409, 282>>, <<5256, -14549, 25373>>, <<0, 0, -195>>,
        <<-23255, -23498, 21462>> >>,
     << <<2933, -3617, 2485>>, <<-32768, -32768, -32768>>,
        <<23170, 23170, 23170>>, <<-11227, 853, 8086>> >>}

\* Four keys with every combination of largest indices and signs.
BatchQuatKeys ==
    {[i \in 1..4 |-> QuaternionKey_new(0, PackBitField(7, l[i], sg[i]), row[i])] :
        l \in [1..4 -> 0..3], sg \in [1..4 -> 0..1], row \in BatchQuatValueRows}

\* Values of the repository's fixtures, 1.0, and infinity / NaN / -0.
BatchFloat3Keys ==
    {Float3Key_new(0, 0, v) :
        v \in {<<11405, 34240, 31>>, <<9839, 1, 0>>, <<15360, 15361, 15362>>,
               <<31744, 65535, 32768>>}}

InitBatch ==
    /\ IdleLoad
    /\ IdleKey
    /\ IdleIK
    /\ \/ /\ batchKind = "quat"
          /\ batchKeys \in BatchQuatKeys
       \/ /\ batchKind = "float3"
          /\ batchKeys \in [1..4 -> BatchFloat3Keys]
    /\ scalarOut = <<>>
    /\ soaOut = <<>>

\* k_i.decompress() for i in 0..3, QuaternionKey
QuatDecompressEach ==
    /\ batchKind = "quat"
    /\ scalarOut = <<>>
    /\ scalarOut' = [i \in 1..4 |-> QuaternionKey_decompress(batchKeys[i])]
    /\ UNCHANGED <<batchKind, batchKeys, soaOut, notBatchVars>>

\* QuaternionKey::simd_decompress(k0, k1, k2, k3, &mut soa)
QuatSimdDecompress ==
    /\ batchKind = "quat"
    /\ soaOut = <<>>
    /\ soaOut' = QuaternionKey_simd_decompress(batchKeys[1], batchKeys[2],
                                               batchKeys[3], batchKeys[4])
    /\ UNCHANGED <<batchKind, batchKeys, scalarOut, notBatchVars>>

\* k_i.decompress() for i in 0..3, Float3Key
Float3DecompressEach ==
    /\ batchKind = "float3"
    /\ scalarOut = <<>>
    /\ scalarOut' = [i \in 1..4 |-> Float3Key_decompress(batchKeys[i])]
    /\ UNCHANGED <<batchKind, batchKeys, soaOut, notBatchVars>>

\* Float3Key::simd_decompress(k0, k1, k2, k3, &mut soa)
Float3SimdDecompress ==
    /\ batchKind = "float3"
    /\ soaOut = <<>>
    /\ soaOut' = Float3Key_simd_decompress(batchKeys[1], batchKeys[2],
                                           batchKeys[3], batchKeys[4])
    /\ UNCHANGED <<batchKind, batchKeys, scalarOut, notBatchVars>>

NextBatch ==
    \/ QuatDecompressEach
    \/ QuatSimdDecompress
    \/ Float3DecompressEach
    \/ Float3SimdDecompress

SpecBatch == InitBatch /\ [][NextBatch]_vars

\* The farthest ww0 * ww0.recip().sqrt() lies from ww0.sqrt(), in units in
\* the last place.
RestoredUlps == 2

\* Component j of lane i of the SoA output and of k_i.decompress()
SoaLane(j, i) ==
    IF j = 1 THEN soaOut.x[i]
    ELSE IF j = 2 THEN soaOut.y[i]
    ELSE IF j = 3 THEN soaOut.z[i]
    ELSE soaOut.w[i]

BothDecoded == scalarOut # <<>> /\ soaOut # <<>>

\* C8 as claimed: after simd_decompress(k0, k1, k2, k3, soa), lane i of each
\* SoA component equals the same component of k_i.decompress(), for i in
\* 0..3, for Float3Key (x, y, z) and for QuaternionKey (x, y, z, w), whatever
\* the keys' largest indices and signs.
C8_BatchedEqualsScalar ==
    BothDecoded =>
        \A i \in 1..4 :
            IF batchKind = "quat"
            THEN \A j \in 1..4 : SoaLane(j, i) = scalarOut[i][j]
            ELSE /\ soaOut.x[i] = scalarOut[i].x
                 /\ soaOut.y[i] = scalarOut[i].y
                 /\ soaOut.z[i] = scalarOut[i].z

\* C8 as amended: lane i of each SoA component is the same component of
\* k_i.decompress() and of no other key.  For Float3Key, and for the three
\* stored components of a QuaternionKey, the two are the same f32.  The
\* restored component of a QuaternionKey is made from the same ww0 and has
\* the same sign both ways, and its f32 lies at most RestoredUlps units in
\* the last place from the scalar's.
C8_BatchedAgreesWithScalar ==
    BothDecoded =>
        \A i \in 1..4 :
            IF batchKind = "quat"
            THEN \A j \in 1..4 :
                    LET a == SoaLane(j, i)
                        b == scalarOut[i][j]
                    IN  /\ a.lin = b.lin
                        /\ a.ww0 = b.ww0
                        /\ a.f32.s = b.f32.s
                        /\ IF j = largest(batchKeys[i]) + 1
                           THEN UlpDistance(a.f32, b.f32) <= RestoredUlps
                           ELSE a.f32 = b.f32
            ELSE /\ soaOut.x[i] = scalarOut[i].x
                 /\ soaOut.y[i] = scalarOut[i].y
                 /\ soaOut.z[i] = scalarOut[i].z

\* Four quaternion keys, three of them sharing the largest index 2 with
\* different signs and values, were decoded both ways, and the restored
\* component of the first came out one f32 apart.
C8_Witness ==
    /\ batchKind = "quat"
    /\ BothDecoded
    /\ largest(batchKeys[1]) = 2 /\ sign(batchKeys[1]) = 1
    /\ largest(batchKeys[2]) = 2 /\ sign(batchKeys[2]) = 0
    /\ largest(batchKeys[3]) = 0
    /\ largest(batchKeys[4]) = 2
    /\ batchKeys[1].value # batchKeys[2].value
    /\ soaOut.z[2].f32.s = 0
    /\ soaOut.z[1].f32.s = 1
    /\ UlpDistance(soaOut.z[1].f32, scalarOut[1][3].f32) >= 1

(***************************************************************************)
(* IKTwoBoneJob (src/src/ik_two_bone_job.rs).                              *)
(*                                                                         *)
(* Scalars and vector components are fixed-point numbers, Unit standing    *)
(* for 1.0, so that lengths compare exactly.  A joint transform is a       *)
(* rotation part, kept by name, and a translation; the start joint of      *)
(* every modelled job has an identity rotation part, which makes the start *)
(* space a translate of the model space.  The rotations run computes are   *)
(* terms over the values the code computes them from.                      *)
(***************************************************************************)
\* 1.0
Unit == 10

\* Largest number of operations one job goes through.
MaxOps == 3

ZERO == <<0, 0, 0>>

X_AXIS == <<Unit, 0, 0>>

Y_AXIS == <<0, Unit, 0>>

Z_AXIS == <<0, 0, Unit>>

\* The identity rotation
QUAT_UNIT == [op |-> "QUAT_UNIT"]

\* A joint transform with rotation part rot and translation t
AosMat4(rot, t) == [rot |-> rot, t |-> t]

AosMat4_identity == AosMat4("identity", ZERO)

\* The difference of two vectors given in units of 1/Unit, as a number.
Minus(a, b) == <<a[1] - b[1], a[2] - b[2], a[3] - b[3]>>

\* The squared length of such a vector, as a number, in units of Unit^-2.
Length2(v) == v[1] * v[1] + v[2] * v[2] + v[3] * v[3]

\* math::vec3_is_normalized: the squared length is 1 within a tolerance far
\* below Unit^-2, the closest two modelled squared lengths come
vec3_is_normalized(v) == Length2(v) = Unit * Unit

\* impl Default for IKTwoBoneJob
IKTwoBoneJob_default ==
    [target |-> ZERO,
     mid_axis |-> Z_AXIS,
     pole_vector |-> Y_AXIS,
     twist_angle |-> 0,
     soften |-> Unit,
     weight |-> Unit,
     start_joint |-> AosMat4_identity,
     mid_joint |-> AosMat4_identity,
     end_joint |-> AosMat4_identity,
     start_joint_correction |-> QUAT_UNIT,
     mid_joint_correction |-> QUAT_UNIT,
     reached |-> FALSE]

\* set_target dropping the outputs of the last run along with the old target.
set_target_ClearsOuts(j, target) ==
    [j EXCEPT !.target = target,
              !.start_joint_correction = QUAT_UNIT,
              !.mid_joint_correction = QUAT_UNIT,
              !.reached = FALSE]

set_target(j, target) == [j EXCEPT !.target = target]

set_mid_axis(j, mid_axis) == [j EXCEPT !.mid_axis = mid_axis]

set_pole_vector(j, pole_vector) == [j EXCEPT !.pole_vector = pole_vector]

set_twist_angle(j, twist_angle) == [j EXCEPT !.twist_angle = twist_angle]

set_soften(j, soften) == [j EXCEPT !.soften = soften]

set_weight(j, weight) == [j EXCEPT !.weight = weight]

set_start_joint(j, start_joint) == [j EXCEPT !.start_joint = start_joint]

set_mid_joint(j, mid_joint) == [j EXCEPT !.mid_joint = mid_joint]

set_end_joint(j, end_joint) == [j EXCEPT !.end_joint = end_joint]

clear_start_joint_correction(j) == [j EXCEPT !.start_joint_correction = QUAT_UNIT]

clear_mid_joint_correction(j) == [j EXCEPT !.mid_joint_correction = QUAT_UNIT]

clear_reached(j) == [j EXCEPT !.reached = FALSE]

clear_outs(j) ==
    clear_reached(clear_mid_joint_correction(clear_start_joint_correction(j)))

\* IKTwoBoneJob::validate
validate(j) == vec3_is_normalized(j.mid_axis)

\* The whole part of the square root of n: the bone lengths the sampled jobs
\* are described by.
RECURSIVE SqrtFrom(_, _)
SqrtFrom(n, r) == IF (r + 1) * (r + 1) > n THEN r ELSE SqrtFrom(n, r + 1)

Sqrt(n) == SqrtFrom(n, 0)

Abs(n) == IF n < 0 THEN -n ELSE n

\* math::fx4_clamp_or_min(v, lo, hi)
fx4_clamp_or_min(v, lo, hi) == IF v < lo THEN lo ELSE IF v > hi THEN hi ELSE v

\* The quotient n / d for d <= n < 2 * d, 23 bits after the leading one:
\* <<quotient, remainder>>.
RECURSIVE QuotDigits(_, _, _, _)
QuotDigits(d, i, q, r) ==
    IF i > 23 THEN <<q, r>>
    ELSE IF 2 * r >= d THEN QuotDigits(d, i + 1, 2 * q + 1, 2 * r - d)
    ELSE QuotDigits(d, i + 1, 2 * q, 2 * r)

\* n / d * 2^e for n, d > 0, rounded to nearest
RECURSIVE F32Quot(_, _, _)
F32Quot(n, d, e) ==
    IF n >= 2 * d THEN F32Quot(n, 2 * d, e + 1)
    ELSE IF n < d THEN F32Quot(2 * n, d, e - 1)
    ELSE LET dg == QuotDigits(d, 1, 1, n - d)
         IN  F32Round(0, dg[1], e - 23, RoundsUp(dg[1], dg[2], d))

\* The f32 a fixed-point number n stands for: the one nearest n / Unit,
\* what the literal is compiled to
F32Of(n) ==
    IF n = 0 THEN F32Zero
    ELSE IF n < 0 THEN F32Neg(F32Quot(-n, Unit, 0))
    ELSE F32Quot(n, Unit, 0)

\* The significand m with rem of unit left out, at exponent e, brought up
\* into [2^23, 2^24) and rounded.
RECURSIVE F32SubNorm(_, _, _, _)
F32SubNorm(m, rem, unit, e) ==
    IF m = 0 /\ rem = 0 THEN F32Zero
    ELSE IF m >= Two23 THEN F32Round(0, m, e, RoundsUp(m, rem, unit))
    ELSE F32SubNorm(2 * m + (IF 2 * rem >= unit THEN 1 ELSE 0),
                    (2 * rem) % unit, unit, e - 1)

\* a - b for a >= b >= 0
F32SubOrdered(a, b) ==
    IF b.m = 0 THEN a
    ELSE LET d == a.e - b.e
         IN  IF d > 25 THEN a
             ELSE LET unit == Pow2(d)
                      q == b.m \div unit
                      r == b.m % unit
                  IN  IF r = 0 THEN F32SubNorm(a.m - q, 0, unit, a.e)
                      ELSE F32SubNorm(a.m - q - 1, unit - r, unit, a.e)

\* a - b for a, b >= 0
F32Sub(a, b) == IF F32Lt(a, b) THEN F32Neg(F32SubOrdered(b, a)) ELSE F32SubOrdered(a, b)

\* a.sqrt() for a >= 0
F32SqrtOrZero(a) == IF a.m = 0 THEN F32Zero ELSE F32Sqrt(a)

\* a - b, of any signs.  A difference of zero is +0.
F32Diff(a, b) ==
    IF b.m = 0 THEN (IF a.m = 0 THEN F32Zero ELSE a)
    ELSE IF a.m = 0 THEN F32(1 - b.s, b.m, b.e)
    ELSE IF a.s # b.s
    THEN \* the magnitudes add up, under the sign of a
         CHOOSE r \in {F32(a.s, sum.m, sum.e) : sum \in {F32Add(a, b)}} : TRUE
    ELSE \* the smaller magnitude is taken from the larger; the sign is that of
         \* a when a is the larger
         CHOOSE r \in
             {IF p.d.m = 0 THEN F32Zero
              ELSE F32(IF p.less THEN 1 - a.s ELSE a.s, p.d.m, p.d.e) :
                 p \in {[less |-> less,
                         d |-> F32SubOrdered(IF less THEN b ELSE a,
                                             IF less THEN a ELSE b)] :
                           less \in {F32Lt(a, b)}}} : TRUE

\* The three f32 a vector given in fixed point stands for
F32Vec(v) == [i \in 1..3 |-> F32Of(v[i])]

\* a - b of two f32x4, on the three lanes of a vector
vec3_sub(a, b) == [i \in 1..3 |-> F32Diff(a[i], b[i])]

\* math::vec3_length2_s: x * x + y * y + z * z
vec3_length2_s(v) ==
    CHOOSE r \in
        {F32Add(F32Add(sq[1], sq[2]), sq[3]) :
            sq \in {[i \in 1..3 |-> F32Mul(v[i], v[i])]}} : TRUE

\* math::THREE
THREE == F32FromInt(3)

\* IKConstantSetup::new.  With the start joint a translation,
\* inv_start_joint.transform_point(p) is p - start_joint.cols[3], taken in
\* f32.  The two mid-space vectors are kept as what they are computed from.
IKConstantSetup_new(j) ==
    LET setup(mid_ss, len2) ==
            [inv_start_joint |-> [op |-> "invert", m |-> j.start_joint],
             start_mid_ms |-> [op |-> "neg_transform_point", inv |-> j.mid_joint,
                               p |-> j.start_joint.t],
             mid_end_ms |-> [op |-> "transform_point", inv |-> j.mid_joint,
                             p |-> j.end_joint.t],
             start_mid_ss |-> mid_ss,
             start_mid_ss_len2 |-> len2[1],
             mid_end_ss_len2 |-> len2[2],
             start_end_ss_len2 |-> len2[3]]
    IN  \* each vector is computed once, in the order of the code
        CHOOSE r \in
            {setup(p.mid_ss,
                   \* the squared lengths of mid_ss, mid_end_ss and end_ss
                   [i \in 1..3 |->
                       vec3_length2_s(IF i = 1 THEN p.mid_ss
                                      ELSE IF i = 2 THEN p.mid_end_ss ELSE p.end_ss)]) :
                p \in {[mid_ss |-> q.mid_ss, end_ss |-> q.end_ss,
                        mid_end_ss |-> vec3_sub(q.end_ss, q.mid_ss)] :
                          q \in {[k \in {"mid_ss", "end_ss"} |->
                                     vec3_sub(F32Vec(IF k = "mid_ss" THEN j.mid_joint.t
                                                     ELSE j.end_joint.t),
                                              F32Vec(j.start_joint.t))]}}} : TRUE

\* IKTwoBoneJob::soften_target, in f32 as the code computes it: the lengths
\* it starts from.
soften_lengths(j, setup) ==
    LET start_target_original_ss ==
            vec3_sub(F32Vec(j.target), F32Vec(j.start_joint.t))
        start_target_original_ss_len2 == vec3_length2_s(start_target_original_ss)
        start_mid_ss_len == F32SqrtOrZero(setup.start_mid_ss_len2)
        mid_end_ss_len == F32SqrtOrZero(setup.mid_end_ss_len2)
        diff == F32Sub(start_mid_ss_len, mid_end_ss_len)
        bones_chain_len == F32Add(start_mid_ss_len, mid_end_ss_len)
        da == F32Mul(bones_chain_len, F32Of(fx4_clamp_or_min(j.soften, 0, Unit)))
    IN  [start_target_original_ss |-> start_target_original_ss,
         start_target_original_ss_len2 |-> start_target_original_ss_len2,
         start_target_original_ss_len |-> F32SqrtOrZero(start_target_original_ss_len2),
         bone_len_diff_abs |-> F32(0, diff.m, diff.e),
         bones_chain_len |-> bones_chain_len,
         da |-> da,
         ds |-> F32Sub(bones_chain_len, da)]

\* left.cmp_gt(right), by lane:
\*   x: start_target_original_ss_len > da
\*   y: start_target_original_ss_len > 0
\*   z: start_target_original_ss_len > bone_len_diff_abs
\*   w: ds > 0
comp_mask(l) ==
    [x |-> F32Lt(l.da, l.start_target_original_ss_len),
     y |-> F32Lt(F32Zero, l.start_target_original_ss_len),
     z |-> F32Lt(l.bone_len_diff_abs, l.start_target_original_ss_len),
     w |-> F32Lt(F32Zero, l.ds)]

\* What f32x4::recip comes to in the two calls of one soften_target on the
\* build b: 1 / x rounded to nearest, or the estimate of the CPU, which is
\* the one seen for an argument seen before and lies ds (for 1 / ds) and op4
\* (for 1 / op4_y) grid steps from the quotient for a new one.
RecipWith(b, ds, op4) ==
    [estimate |-> b.estimate, seen |-> b.seen, ds |-> ds, op4 |-> op4]

\* recip on the build that divides (what wide computes where the CPU has no
\* estimate instruction).
ExactRecip == RecipWith([estimate |-> FALSE, seen |-> {}], 0, 0)

\* The grid of the estimates: 13 significant bits.
RecipGrid == 2048

\* How far, in steps of RecipGrid, the estimate of a CPU lies from the
\* quotient cut down to the grid: the table of the CPU decides, argument by
\* argument, within the error bound.
RecipOffsets == -2..3

\* The builds before any call of recip: the one that divides and the one
\* that takes the estimate of the CPU.  seen is the table of the CPU as far
\* as the calls made have shown it: the argument x and the estimate r.
RecipBuilds == {[estimate |-> e, seen |-> {}] : e \in BOOLEAN}

\* The estimate of 1 / a for a > 0 the CPU gives (RCPPS): a value of 13
\* significant bits within 1.5 * 2^-12 of the quotient, relatively.  Which one
\* depends on the CPU; o picks it, counted in grid steps from the quotient
\* cut down to the grid and brought back into the error bound.
F32RecipEstimate(a, o) ==
    LET q == F32Recip(a)
        base == (q.m \div RecipGrid) * RecipGrid
        bound == (3 * (q.m \div RecipGrid)) \div 4
        cands == {c \in {base + k * RecipGrid : k \in -3..3} : Abs(c - q.m) <= bound}
        lo == CHOOSE c \in cands : \A d \in cands : c <= d
        hi == CHOOSE c \in cands : \A d \in cands : c >= d
        picked == base + o * RecipGrid
        c == IF picked < lo THEN lo ELSE IF picked > hi THEN hi ELSE picked
    IN  IF c >= Two24 THEN F32(a.s, c \div 2, q.e + 1) ELSE F32Normal(a.s, c, q.e)

\* f32x4::recip, on one lane: the quotient, or the estimate of the CPU,
\* which is a function of the argument (o picks it for a new argument)
f32x4_recip(a, rc, o) ==
    IF ~rc.estimate THEN F32Recip(a)
    ELSE IF \E c \in rc.seen : c.x = a THEN (CHOOSE c \in rc.seen : c.x = a).r
    ELSE F32RecipEstimate(a, o)

\* The softened length blended from the raw length instead of da:
\* len + ds - ds * ratio.
start_target_ss_len_FromRaw(l, rc) ==
    LET op_x == THREE
        op4_x == F32Mul(F32Mul(op_x, op_x), F32Mul(op_x, op_x))
        blended(ds_recip, op4_y, op4_recip) ==
            LET ratio == F32Mul(op4_x, op4_recip)
            IN  [len |-> F32Sub(F32Add(l.start_target_original_ss_len, l.ds), F32Mul(l.ds, ratio)),
                 recips |-> <<[x |-> l.ds, r |-> ds_recip],
                              [x |-> op4_y, r |-> op4_recip]>>]
        divided(ds_recip) ==
            LET alpha == F32Mul(F32Sub(l.start_target_original_ss_len, l.da), ds_recip)
                op_y == F32Add(alpha, THREE)
            IN  CHOOSE r \in
                    {blended(ds_recip, op4_y,
                             f32x4_recip(op4_y,
                                         [rc EXCEPT !.seen = @ \cup {[x |-> l.ds,
                                                                      r |-> ds_recip]}],
                                         rc.op4)) :
                        op4_y \in {F32Mul(F32Mul(op_y, op_y), F32Mul(op_y, op_y))}} : TRUE
    IN  \* each reciprocal is taken once
        CHOOSE r \in
            {divided(ds_recip) :
                ds_recip \in {f32x4_recip(l.ds, rc, rc.ds)}} : TRUE

\* The softened length with ds * ratio added, da + ds + ds * ratio.
start_target_ss_len_RatioAdded(l, rc) ==
    LET op_x == THREE
        op4_x == F32Mul(F32Mul(op_x, op_x), F32Mul(op_x, op_x))
        blended(ds_recip, op4_y, op4_recip) ==
            LET ratio == F32Mul(op4_x, op4_recip)
            IN  [len |-> F32Add(F32Add(l.da, l.ds), F32Mul(l.ds, ratio)),
                 recips |-> <<[x |-> l.ds, r |-> ds_recip],
                              [x |-> op4_y, r |-> op4_recip]>>]
        divided(ds_recip) ==
            LET alpha == F32Mul(F32Sub(l.start_target_original_ss_len, l.da), ds_recip)
                op_y == F32Add(alpha, THREE)
            IN  CHOOSE r \in
                    {blended(ds_recip, op4_y,
                             f32x4_recip(op4_y,
                                         [rc EXCEPT !.seen = @ \cup {[x |-> l.ds,
                                                                      r |-> ds_recip]}],
                                         rc.op4)) :
                        op4_y \in {F32Mul(F32Mul(op_y, op_y), F32Mul(op_y, op_y))}} : TRUE
    IN  \* each reciprocal is taken once
        CHOOSE r \in
            {divided(ds_recip) :
                ds_recip \in {f32x4_recip(l.ds, rc, rc.ds)}} : TRUE

\* The softened length start_target_ss_len: alpha = (len - da) / ds,
\* ratio = 3^4 / (alpha + 3)^4, da + ds - ds * ratio; with it, the two
\* calls of recip made: the argument x and what came back, r.
start_target_ss_len(l, rc) ==
    LET op_x == THREE
        op4_x == F32Mul(F32Mul(op_x, op_x), F32Mul(op_x, op_x))
        blended(ds_recip, op4_y, op4_recip) ==
            LET ratio == F32Mul(op4_x, op4_recip)
            IN  [len |-> F32Sub(F32Add(l.da, l.ds), F32Mul(l.ds, ratio)),
                 recips |-> <<[x |-> l.ds, r |-> ds_recip],
                              [x |-> op4_y, r |-> op4_recip]>>]
        divided(ds_recip) ==
            LET alpha == F32Mul(F32Sub(l.start_target_original_ss_len, l.da), ds_recip)
                op_y == F32Add(alpha, THREE)
            IN  CHOOSE r \in
                    {blended(ds_recip, op4_y,
                             f32x4_recip(op4_y,
                                         [rc EXCEPT !.seen = @ \cup {[x |-> l.ds,
                                                                      r |-> ds_recip]}],
                                         rc.op4)) :
                        op4_y \in {F32Mul(F32Mul(op_y, op_y), F32Mul(op_y, op_y))}} : TRUE
    IN  \* each reciprocal is taken once
        CHOOSE r \in
            {divided(ds_recip) :
                ds_recip \in {f32x4_recip(l.ds, rc, rc.ds)}} : TRUE

\* The mask tested on all four lanes, comp_mask == 0xf.
softens_AllLanes(mask) == mask.x /\ mask.y /\ mask.z /\ mask.w

\* The mask tested for w alone, (comp_mask & 0x8) == 0x8.
softens_DsOnly(mask) == mask.w

\* (comp_mask & 0xb) == 0xb: x, y and w set, z untested
softens(mask) == mask.x /\ mask.y /\ mask.w

\* The mask tested for z alone, (comp_mask & 0x4) == 0x4.
lreached_ZOnly(mask) == mask.z

\* (comp_mask & 0x5) == 0x4: z set and x clear
lreached(mask) == ~mask.x /\ mask.z

\* The result carries, next to the three values the code returns, the length
\* of the start_target_ss it returns (start_target_ss_len), whether
\* start_target_ss_len2 is above zero, which is all compute_start_joint asks
\* of it, the lengths the call started from and the calls of recip it made.
soften_target(j, setup, rc) ==
    LET returned(l, mask, len, recips) ==
            IF softens(mask)
            THEN [reached |-> lreached(mask),
                  start_target_ss |-> [op |-> "rescaled",
                                       v |-> l.start_target_original_ss,
                                       len |-> len],
                  start_target_ss_len2 |-> [op |-> "squared", len |-> len],
                  start_target_ss_len |-> len,
                  start_target_ss_len2_gt_zero |-> len.m # 0,
                  lengths |-> l,
                  recips |-> recips]
            ELSE [reached |-> lreached(mask),
                  start_target_ss |-> [op |-> "vector", v |-> l.start_target_original_ss],
                  start_target_ss_len2 |-> [op |-> "number",
                                            n |-> l.start_target_original_ss_len2],
                  start_target_ss_len |-> l.start_target_original_ss_len,
                  start_target_ss_len2_gt_zero |-> l.start_target_original_ss_len2.m # 0,
                  lengths |-> l,
                  recips |-> <<>>]
        \* the softened length, computed where the code computes it
        computed(l, mask) ==
            IF softens(mask)
            THEN CHOOSE r \in
                     {returned(l, mask, sl.len, sl.recips) :
                         sl \in {start_target_ss_len(l, rc)}} : TRUE
            ELSE returned(l, mask, F32Zero, <<>>)
    IN  \* each value is computed once, in the order of the code
        CHOOSE r \in
            {computed(p.l, p.mask) :
                p \in {[l |-> l, mask |-> comp_mask(l)] :
                          l \in {soften_lengths(j, setup)}}} : TRUE

\* IKTwoBoneJob::compute_mid_joint
compute_mid_joint(j, setup, start_target_ss_len2) ==
    [op |-> "quat_from_axis_angle",
     axis |-> j.mid_axis,
     angle |-> [op |-> "mid_angles_diff",
                start_mid_ss_len2 |-> setup.start_mid_ss_len2,
                mid_end_ss_len2 |-> setup.mid_end_ss_len2,
                start_target_ss_len2 |-> start_target_ss_len2,
                start_end_ss_len2 |-> setup.start_end_ss_len2,
                start_mid_ms |-> setup.start_mid_ms,
                mid_axis |-> j.mid_axis,
                mid_end_ms |-> setup.mid_end_ms]]

\* compute_start_joint aligning the planes and twisting for a target at the
\* start joint too (the test of start_target_ss_len2 left out).
compute_start_joint_NoLengthTest(j, setup, mid_rot_ms, st) ==
    LET mid_end_ss_final ==
            [op |-> "transform_vector", m |-> setup.inv_start_joint,
             v |-> [op |-> "transform_vector", m |-> j.mid_joint,
                    v |-> [op |-> "quat_transform_vector", q |-> mid_rot_ms,
                           v |-> setup.mid_end_ms]]]
        end_to_target_rot_ss ==
            [op |-> "quat_from_vectors",
             from |-> [op |-> "add", a |-> setup.start_mid_ss, b |-> mid_end_ss_final],
             to |-> st.start_target_ss]
        pole_ss == [op |-> "transform_vector", m |-> setup.inv_start_joint,
                    v |-> j.pole_vector]
        mid_axis_ss == [op |-> "transform_vector", m |-> setup.inv_start_joint,
                        v |-> [op |-> "transform_vector", m |-> j.mid_joint,
                               v |-> j.mid_axis]]
        rotate_plane_ss ==
            [op |-> "quat_from_cos_angle",
             start_target_ss |-> st.start_target_ss,
             start_target_ss_len2 |-> st.start_target_ss_len2,
             pole_ss |-> pole_ss,
             joint_plane_normal_ss |-> [op |-> "quat_transform_vector",
                                        q |-> end_to_target_rot_ss,
                                        v |-> mid_axis_ss]]
        twist_ss == [op |-> "quat_from_axis_angle",
                     axis |-> [op |-> "normalized", v |-> st.start_target_ss,
                               len2 |-> st.start_target_ss_len2],
                     angle |-> j.twist_angle]
    IN  IF j.twist_angle # 0
        THEN [op |-> "quat_mul",
              a |-> [op |-> "quat_mul", a |-> twist_ss, b |-> rotate_plane_ss],
              b |-> end_to_target_rot_ss]
        ELSE [op |-> "quat_mul", a |-> rotate_plane_ss, b |-> end_to_target_rot_ss]

\* compute_start_joint with the twist applied outside the test of
\* start_target_ss_len2: a target at the start joint is twisted too.
compute_start_joint_TwistOutsideTest(j, setup, mid_rot_ms, st) ==
    LET mid_end_ss_final ==
            [op |-> "transform_vector", m |-> setup.inv_start_joint,
             v |-> [op |-> "transform_vector", m |-> j.mid_joint,
                    v |-> [op |-> "quat_transform_vector", q |-> mid_rot_ms,
                           v |-> setup.mid_end_ms]]]
        end_to_target_rot_ss ==
            [op |-> "quat_from_vectors",
             from |-> [op |-> "add", a |-> setup.start_mid_ss, b |-> mid_end_ss_final],
             to |-> st.start_target_ss]
        pole_ss == [op |-> "transform_vector", m |-> setup.inv_start_joint,
                    v |-> j.pole_vector]
        mid_axis_ss == [op |-> "transform_vector", m |-> setup.inv_start_joint,
                        v |-> [op |-> "transform_vector", m |-> j.mid_joint,
                               v |-> j.mid_axis]]
        rotate_plane_ss ==
            [op |-> "quat_from_cos_angle",
             start_target_ss |-> st.start_target_ss,
             start_target_ss_len2 |-> st.start_target_ss_len2,
             pole_ss |-> pole_ss,
             joint_plane_normal_ss |-> [op |-> "quat_transform_vector",
                                        q |-> end_to_target_rot_ss,
                                        v |-> mid_axis_ss]]
        twist_ss == [op |-> "quat_from_axis_angle",
                     axis |-> [op |-> "normalized", v |-> st.start_target_ss,
                               len2 |-> st.start_target_ss_len2],
                     angle |-> j.twist_angle]
    IN  IF st.start_target_ss_len2_gt_zero
        THEN IF j.twist_angle # 0
             THEN [op |-> "quat_mul",
                   a |-> [op |-> "quat_mul", a |-> twist_ss, b |-> rotate_plane_ss],
                   b |-> end_to_target_rot_ss]
             ELSE [op |-> "quat_mul", a |-> rotate_plane_ss, b |-> end_to_target_rot_ss]
        ELSE IF j.twist_angle # 0
        THEN [op |-> "quat_mul", a |-> twist_ss, b |-> end_to_target_rot_ss]
        ELSE end_to_target_rot_ss

\* IKTwoBoneJob::compute_start_joint: the shortest arc from the corrected
\* chain to the target, then, for a target away from the start joint, the
\* rotation onto the pole plane and the twist.
compute_start_joint(j, setup, mid_rot_ms, st) ==
    LET mid_end_ss_final ==
            [op |-> "transform_vector", m |-> setup.inv_start_joint,
             v |-> [op |-> "transform_vector", m |-> j.mid_joint,
                    v |-> [op |-> "quat_transform_vector", q |-> mid_rot_ms,
                           v |-> setup.mid_end_ms]]]
        end_to_target_rot_ss ==
            [op |-> "quat_from_vectors",
             from |-> [op |-> "add", a |-> setup.start_mid_ss, b |-> mid_end_ss_final],
             to |-> st.start_target_ss]
        pole_ss == [op |-> "transform_vector", m |-> setup.inv_start_joint,
                    v |-> j.pole_vector]
        mid_axis_ss == [op |-> "transform_vector", m |-> setup.inv_start_joint,
                        v |-> [op |-> "transform_vector", m |-> j.mid_joint,
                               v |-> j.mid_axis]]
        rotate_plane_ss ==
            [op |-> "quat_from_cos_angle",
             start_target_ss |-> st.start_target_ss,
             start_target_ss_len2 |-> st.start_target_ss_len2,
             pole_ss |-> pole_ss,
             joint_plane_normal_ss |-> [op |-> "quat_transform_vector",
                                        q |-> end_to_target_rot_ss,
                                        v |-> mid_axis_ss]]
        twist_ss == [op |-> "quat_from_axis_angle",
                     axis |-> [op |-> "normalized", v |-> st.start_target_ss,
                               len2 |-> st.start_target_ss_len2],
                     angle |-> j.twist_angle]
    IN  IF st.start_target_ss_len2_gt_zero
        THEN IF j.twist_angle # 0
             THEN [op |-> "quat_mul",
                   a |-> [op |-> "quat_mul", a |-> twist_ss, b |-> rotate_plane_ss],
                   b |-> end_to_target_rot_ss]
             ELSE [op |-> "quat_mul", a |-> rotate_plane_ss, b |-> end_to_target_rot_ss]
        ELSE end_to_target_rot_ss

\* weight_output interpolating from the corrections the job held before the
\* call instead of from the identity.
weight_output_FromPrevious(j, start_rot, mid_rot) ==
    LET start_rot_fu == [op |-> "quat_positive_w", q |-> start_rot]
        mid_rot_fu == [op |-> "quat_positive_w", q |-> mid_rot]
        simd_weight == IF j.weight > 0 THEN j.weight ELSE 0
    IN  IF j.weight < Unit
        THEN [j EXCEPT
                 !.start_joint_correction =
                     [op |-> "normalized_lerp", a |-> j.start_joint_correction,
                      b |-> start_rot_fu, alpha |-> simd_weight],
                 !.mid_joint_correction =
                     [op |-> "normalized_lerp", a |-> j.mid_joint_correction,
                      b |-> mid_rot_fu, alpha |-> simd_weight]]
        ELSE [j EXCEPT !.start_joint_correction = start_rot_fu,
                       !.mid_joint_correction = mid_rot_fu]

\* weight_output interpolating at weight 1 too (weight <= 1.0).
weight_output_LerpAtOne(j, start_rot, mid_rot) ==
    LET start_rot_fu == [op |-> "quat_positive_w", q |-> start_rot]
        mid_rot_fu == [op |-> "quat_positive_w", q |-> mid_rot]
        simd_weight == IF j.weight > 0 THEN j.weight ELSE 0
    IN  IF j.weight <= Unit
        THEN [j EXCEPT
                 !.start_joint_correction =
                     [op |-> "normalized_lerp", a |-> QUAT_UNIT, b |-> start_rot_fu,
                      alpha |-> simd_weight],
                 !.mid_joint_correction =
                     [op |-> "normalized_lerp", a |-> QUAT_UNIT, b |-> mid_rot_fu,
                      alpha |-> simd_weight]]
        ELSE [j EXCEPT !.start_joint_correction = start_rot_fu,
                       !.mid_joint_correction = mid_rot_fu]

\* IKTwoBoneJob::weight_output
weight_output(j, start_rot, mid_rot) ==
    LET start_rot_fu == [op |-> "quat_positive_w", q |-> start_rot]
        mid_rot_fu == [op |-> "quat_positive_w", q |-> mid_rot]
        simd_weight == IF j.weight > 0 THEN j.weight ELSE 0
    IN  IF j.weight < Unit
        THEN [j EXCEPT
                 !.start_joint_correction =
                     [op |-> "normalized_lerp", a |-> QUAT_UNIT, b |-> start_rot_fu,
                      alpha |-> simd_weight],
                 !.mid_joint_correction =
                     [op |-> "normalized_lerp", a |-> QUAT_UNIT, b |-> mid_rot_fu,
                      alpha |-> simd_weight]]
        ELSE [j EXCEPT !.start_joint_correction = start_rot_fu,
                       !.mid_joint_correction = mid_rot_fu]

\* The solve with reached taken from soften_target alone, the weight not
\* asked.
run_solve_ReachedIgnoresWeight(j, rc) ==
    LET solved(setup, st) ==
            LET j1 == [j EXCEPT !.reached = st.reached]
                mid_rot_ms == compute_mid_joint(j1, setup, st.start_target_ss_len2)
                start_rot_ss == compute_start_joint(j1, setup, mid_rot_ms, st)
            IN  [job |-> weight_output(j1, start_rot_ss, mid_rot_ms),
                 result |-> Ok(<<>>),
                 softened |-> st]
    IN  CHOOSE r \in
            {solved(p.setup, p.st) :
                p \in {[setup |-> setup, st |-> soften_target(j, setup, rc)] :
                          setup \in {IKConstantSetup_new(j)}}} : TRUE

\* IKTwoBoneJob::run past the validation and the weight shortcut: the
\* solve proper
run_solve(j, rc) ==
    LET solved(setup, st) ==
            LET j1 == [j EXCEPT !.reached = st.reached /\ j.weight >= Unit]
                mid_rot_ms == compute_mid_joint(j1, setup, st.start_target_ss_len2)
                start_rot_ss == compute_start_joint(j1, setup, mid_rot_ms, st)
            IN  [job |-> weight_output(j1, start_rot_ss, mid_rot_ms),
                 result |-> Ok(<<>>),
                 softened |-> st]
    IN  \* setup and the softened target are computed once, as in the code
        CHOOSE r \in
            {solved(p.setup, p.st) :
                p \in {[setup |-> setup, st |-> soften_target(j, setup, rc)] :
                          setup \in {IKConstantSetup_new(j)}}} : TRUE

\* run taking the weight shortcut before it validates.
run_WeightFirst(j, rc) ==
    IF j.weight <= 0
    THEN [job |-> [j EXCEPT !.start_joint_correction = QUAT_UNIT,
                            !.mid_joint_correction = QUAT_UNIT,
                            !.reached = FALSE],
          result |-> Ok(<<>>),
          softened |-> NoResult]
    ELSE IF ~validate(j) THEN [job |-> j, result |-> Err("InvalidJob"), softened |-> NoResult]
    ELSE run_solve(j, rc)

\* run whose weight shortcut leaves reached as it was.
run_ShortcutKeepsReached(j, rc) ==
    IF ~validate(j) THEN [job |-> j, result |-> Err("InvalidJob"), softened |-> NoResult]
    ELSE IF j.weight <= 0
    THEN [job |-> [j EXCEPT !.start_joint_correction = QUAT_UNIT,
                            !.mid_joint_correction = QUAT_UNIT],
          result |-> Ok(<<>>),
          softened |-> NoResult]
    ELSE run_solve(j, rc)

\* IKTwoBoneJob::run: the job after the call and what the call returned
run(j, rc) ==
    IF ~validate(j) THEN [job |-> j, result |-> Err("InvalidJob"), softened |-> NoResult]
    ELSE IF j.weight <= 0
    THEN [job |-> [j EXCEPT !.start_joint_correction = QUAT_UNIT,
                            !.mid_joint_correction = QUAT_UNIT,
                            !.reached = FALSE],
          result |-> Ok(<<>>),
          softened |-> NoResult]
    ELSE run_solve(j, rc)

(***************************************************************************)
(* One job: constructed, then taken through setters, clears and runs.      *)
(***************************************************************************)
\* math::vec3_cross, of two vectors in units of 1/Unit, in the same units
vec3_cross(a, b) ==
    <<(a[2] * b[3] - a[3] * b[2]) \div Unit,
      (a[3] * b[1] - a[1] * b[3]) \div Unit,
      (a[1] * b[2] - a[2] * b[1]) \div Unit>>

\* The job the repository's tests start from (new_ik_two_bone_job): a right
\* angle chain of two bones of length 1, mid_axis the normal of its plane.
new_ik_two_bone_job ==
    LET start == AosMat4_identity
        mid == AosMat4("rotation_z_frac_pi_2", Y_AXIS)
        end == AosMat4("identity", <<Unit, Unit, 0>>)
        mid_axis == vec3_cross(Minus(start.t, mid.t), Minus(end.t, mid.t))
    IN  set_mid_axis(
            set_end_joint(
                set_mid_joint(set_start_joint(IKTwoBoneJob_default, start), mid),
                end),
            mid_axis)

\* That job after the first block of test_weight: pole +Y, target (2, 0, 0),
\* weight 1, run.
SolvedJob ==
    CHOOSE r \in
        {run(j, ExactRecip) :
            j \in {set_weight(set_target(set_pole_vector(new_ik_two_bone_job, Y_AXIS),
                                         <<2 * Unit, 0, 0>>),
                              Unit)}} : TRUE

\* The values the setters are called with.  Targets: the start joint of the
\* fixture, the targets at distance 2, 1 and 1.2 of test_weight and
\* test_soften, one on the mid_axis side and one very far away.
TargetSamples ==
    {ZERO, <<2 * Unit, 0, 0>>, <<Unit, 0, 0>>, <<12, 0, 0>>, <<0, 0, Unit>>,
     <<200 * Unit, 0, 0>>}

\* +Z, a unit vector off the axes, the vector of test_validity, and a vector
\* of length 2
MidAxisSamples == {Z_AXIS, <<6, 8, 0>>, <<Unit, 2 * Unit, 3 * Unit>>, <<0, 0, 2 * Unit>>}

PoleVectorSamples == {Y_AXIS, X_AXIS}

TwistAngleSamples == {0, 5}

\* 1.0, 0.5 (test_soften), 0.0 and 1.5
SoftenSamples == {Unit, 5, 0, 15}

\* 1.0, 0.0, -0.1, 0.5 and 1.1 (test_weight)
WeightSamples == {Unit, 0, -1, 5, 11}

StartJointSamples == {AosMat4_identity, AosMat4("identity", <<0, -2 * Unit, 0>>)}

MidJointSamples == {AosMat4_identity, AosMat4("rotation_z_frac_pi_2", Y_AXIS)}

EndJointSamples == {AosMat4_identity, AosMat4("identity", <<Unit, Unit, 0>>)}

IsSquare(n) == Sqrt(n) * Sqrt(n) = n

\* Both bones of j have a whole length.
WholeBones(j) ==
    /\ IsSquare(Length2(Minus(j.mid_joint.t, j.start_joint.t)))
    /\ IsSquare(Length2(Minus(j.end_joint.t, j.mid_joint.t)))

\* run on j gets to the softening branch, where recip is called.
RecipCalled(j) ==
    /\ validate(j)
    /\ j.weight > 0
    /\ softens(comp_mask(soften_lengths(j, IKConstantSetup_new(j))))

\* A new job, the fixture of the tests and the solved fixture, each on
\* either build.  The run behind the solved fixture (soften 1) did not get to
\* the softening branch: it is the same on both.
InitIK ==
    /\ IdleLoad
    /\ IdleKey
    /\ IdleBatch
    /\ recip \in RecipBuilds
    /\ \/ /\ job = IKTwoBoneJob_default
          /\ lastOp = "new"
          /\ runResult = NoResult
          /\ softened = NoResult
       \/ /\ job = new_ik_two_bone_job
          /\ lastOp = "new"
          /\ runResult = NoResult
          /\ softened = NoResult
       \/ /\ \E r \in {SolvedJob} :
                /\ job = r.job
                /\ runResult = r.result
                /\ softened = r.softened
          /\ lastOp = "run"
    /\ ops = 0

\* The bookkeeping of one more operation on the job.
Stepped(op) ==
    /\ ops' = ops + 1
    /\ lastOp' = op

SetTarget ==
    /\ ops < MaxOps
    /\ \E v \in TargetSamples : job' = set_target(job, v)
    /\ Stepped("set_target")
    /\ UNCHANGED <<runResult, softened, recip, notIKVars>>

SetMidAxis ==
    /\ ops < MaxOps
    /\ \E v \in MidAxisSamples : job' = set_mid_axis(job, v)
    /\ Stepped("set_mid_axis")
    /\ UNCHANGED <<runResult, softened, recip, notIKVars>>

SetPoleVector ==
    /\ ops < MaxOps
    /\ \E v \in PoleVectorSamples : job' = set_pole_vector(job, v)
    /\ Stepped("set_pole_vector")
    /\ UNCHANGED <<runResult, softened, recip, notIKVars>>

SetTwistAngle ==
    /\ ops < MaxOps
    /\ \E a \in TwistAngleSamples : job' = set_twist_angle(job, a)
    /\ Stepped("set_twist_angle")
    /\ UNCHANGED <<runResult, softened, recip, notIKVars>>

SetSoften ==
    /\ ops < MaxOps
    /\ \E x \in SoftenSamples : job' = set_soften(job, x)
    /\ Stepped("set_soften")
    /\ UNCHANGED <<runResult, softened, recip, notIKVars>>

SetWeight ==
    /\ ops < MaxOps
    /\ \E x \in WeightSamples : job' = set_weight(job, x)
    /\ Stepped("set_weight")
    /\ UNCHANGED <<runResult, softened, recip, notIKVars>>

SetStartJoint ==
    /\ ops < MaxOps
    /\ \E m \in StartJointSamples :
          /\ WholeBones(set_start_joint(job, m))
          /\ job' = set_start_joint(job, m)
    /\ Stepped("set_start_joint")
    /\ UNCHANGED <<runResult, softened, recip, notIKVars>>

SetMidJoint ==
    /\ ops < MaxOps
    /\ \E m \in MidJointSamples :
          /\ WholeBones(set_mid_joint(job, m))
          /\ job' = set_mid_joint(job, m)
    /\ Stepped("set_mid_joint")
    /\ UNCHANGED <<runResult, softened, recip, notIKVars>>

SetEndJoint ==
    /\ ops < MaxOps
    /\ \E m \in EndJointSamples :
          /\ WholeBones(set_end_joint(job, m))
          /\ job' = set_end_joint(job, m)
    /\ Stepped("set_end_joint")
    /\ UNCHANGED <<runResult, softened, recip, notIKVars>>

ClearStartJointCorrection ==
    /\ ops < MaxOps
    /\ job' = clear_start_joint_correction(job)
    /\ Stepped("clear_start_joint_correction")
    /\ UNCHANGED <<runResult, softened, recip, notIKVars>>

ClearMidJointCorrection ==
    /\ ops < MaxOps
    /\ job' = clear_mid_joint_correction(job)
    /\ Stepped("clear_mid_joint_correction")
    /\ UNCHANGED <<runResult, softened, recip, notIKVars>>

ClearReached ==
    /\ ops < MaxOps
    /\ job' = clear_reached(job)
    /\ Stepped("clear_reached")
    /\ UNCHANGED <<runResult, softened, recip, notIKVars>>

ClearOuts ==
    /\ ops < MaxOps
    /\ job' = clear_outs(job)
    /\ Stepped("clear_outs")
    /\ UNCHANGED <<runResult, softened, recip, notIKVars>>

\* The calls of recip a soften_target that rescaled has made.
Calls(st) == {st.recips[i] : i \in DOMAIN st.recips}

\* job.run()
Run ==
    /\ ops < MaxOps
    /\ Stepped("run")
    /\ IF recip.estimate /\ RecipCalled(job)
       THEN \* what the CPU gives for a new argument is what it gives for it
            \* from now on
            \E a, b \in RecipOffsets :
                \E r \in {run(job, RecipWith(recip, a, b))} :
                    /\ job' = r.job
                    /\ runResult' = r.result
                    /\ softened' = r.softened
                    /\ recip' = [recip EXCEPT !.seen = @ \cup Calls(r.softened)]
       ELSE \E r \in {run(job, RecipWith(recip, 0, 0))} :
                /\ job' = r.job
                /\ runResult' = r.result
                /\ softened' = r.softened
                /\ recip' = recip
    /\ UNCHANGED notIKVars

NextIK ==
    \/ SetTarget
    \/ SetMidAxis
    \/ SetPoleVector
    \/ SetTwistAngle
    \/ SetSoften
    \/ SetWeight
    \/ SetStartJoint
    \/ SetMidJoint
    \/ SetEndJoint
    \/ ClearStartJointCorrection
    \/ ClearMidJointCorrection
    \/ ClearReached
    \/ ClearOuts
    \/ Run

SpecIK == InitIK /\ [][NextIK]_vars

(***************************************************************************)
(* One call of run on each job the setters can build from the samples.     *)
(***************************************************************************)
\* The targets of the jobs solved: the sampled ones, the target at
\* distance 0.8 of test_soften, and the target at the translated start joint.
SolveTargetSamples == TargetSamples \cup {<<8, 0, 0>>, <<0, -2 * Unit, 0>>}

\* Chains along +X whose start joint is off the origin: the start joint,
\* the mid joint and the end joint at 1, 2, 3 and at 0.5, 1.5, 2.5.
OffsetChains ==
    {<<<<Unit, 0, 0>>, <<2 * Unit, 0, 0>>, <<3 * Unit, 0, 0>>>>,
     <<<<5, 0, 0>>, <<15, 0, 0>>, <<25, 0, 0>>>>}

\* Those chains on targets at 1.2, 0.8, 0.7 and 2.2, which f32 does not hold
\* exactly: the subtraction of the start joint from the target rounds, and
\* the raw distance is not the f32 nearest 0.2, -0.2 or 1.2.  soften 0.1,
\* 0.5, 1.
OffsetJobs ==
    {set_end_joint(
         set_mid_joint(
             set_start_joint(
                 set_weight(set_soften(set_target(IKTwoBoneJob_default, t), s), w),
                 AosMat4("identity", c[1])),
             AosMat4("identity", c[2])),
         AosMat4("identity", c[3])) :
         t \in {<<12, 0, 0>>, <<8, 0, 0>>, <<7, 0, 0>>, <<22, 0, 0>>},
         s \in {1, 5, Unit},
         w \in {Unit, 5}, c \in OffsetChains}

\* The three joints of j are at the same place.
Coincident(j) ==
    /\ j.start_joint.t = j.mid_joint.t
    /\ j.mid_joint.t = j.end_joint.t

\* Chains whose three joints are translations to one place off the origin,
\* on targets at that place, 1 and 0.2 along +X from it (the latter rounds
\* in the subtraction), 1 along +Z and 1 along +Y.  The pole vector
\* (0.8, -0.6, 0) puts the normal of the plane of the target +Z along the
\* mid_axis (0.6, 0.8, 0), the pole vector (0.6, 0.8, 0) at a right angle
\* to it.
CoincidentJobs ==
    {set_end_joint(
         set_mid_joint(
             set_start_joint(
                 set_weight(
                     set_soften(
                         set_twist_angle(
                             set_pole_vector(
                                 set_mid_axis(
                                     set_target(IKTwoBoneJob_default,
                                                <<c[1] + t[1], c[2] + t[2], c[3] + t[3]>>),
                                     a),
                                 p),
                             tw),
                         s),
                     w),
                 AosMat4("identity", c)),
             AosMat4("identity", c)),
         AosMat4("identity", c)) :
         t \in {ZERO, X_AXIS, <<2, 0, 0>>, Z_AXIS, Y_AXIS},
         a \in {Z_AXIS, <<6, 8, 0>>}, p \in PoleVectorSamples \cup {<<8, -6, 0>>, <<6, 8, 0>>},
         tw \in TwistAngleSamples, s \in {Unit, 5}, w \in {Unit, 5, 0},
         c \in {X_AXIS, <<0, -2 * Unit, 0>>}}

\* The jobs with a unit mid_axis and bones of whole length.
SolveJobs ==
    {j \in {set_end_joint(
                set_mid_joint(
                    set_start_joint(
                        set_weight(
                            set_soften(
                                set_twist_angle(
                                    set_pole_vector(
                                        set_mid_axis(
                                            set_target(IKTwoBoneJob_default, t), a),
                                        p),
                                    tw),
                                s),
                            w),
                        sj),
                    mj),
                ej) :
                t \in SolveTargetSamples, a \in MidAxisSamples, p \in PoleVectorSamples,
                tw \in TwistAngleSamples, s \in SoftenSamples, w \in WeightSamples,
                sj \in StartJointSamples, mj \in MidJointSamples,
                ej \in EndJointSamples} :
        validate(j) /\ WholeBones(j)}

InitSolve ==
    /\ IdleLoad
    /\ IdleKey
    /\ IdleBatch
    /\ job \in SolveJobs \cup OffsetJobs \cup CoincidentJobs
    \* the build shows in what is kept of a run through the softened length
    \* and, on coincident joints, through the cosine of the plane rotation:
    \* for the other jobs one build stands for both
    /\ recip \in {b \in RecipBuilds :
                    b.estimate => (RecipCalled(job) \/ Coincident(job))}
    /\ lastOp = "set_end_joint"
    /\ runResult = NoResult
    /\ softened = NoResult
    /\ ops = 0

\* job.run(), once
Solve ==
    /\ lastOp # "run"
    /\ Stepped("run")
    /\ IF recip.estimate /\ RecipCalled(job)
       THEN \* what the CPU gives for a new argument is what it gives for it
            \* from now on
            \E a, b \in RecipOffsets :
                \E r \in {run(job, RecipWith(recip, a, b))} :
                    /\ job' = r.job
                    /\ runResult' = r.result
                    /\ softened' = r.softened
                    /\ recip' = [recip EXCEPT !.seen = @ \cup Calls(r.softened)]
       ELSE \E r \in {run(job, RecipWith(recip, 0, 0))} :
                /\ job' = r.job
                /\ runResult' = r.result
                /\ softened' = r.softened
                /\ recip' = recip
    /\ UNCHANGED notIKVars

NextSolve == Solve

SpecSolve == InitSolve /\ [][NextSolve]_vars

(***************************************************************************)
(* Properties of run.                                                      *)
(***************************************************************************)
\* The step is a call of run: no other operation leaves lastOp "run".
RunStep == Stepped("run")

\* C9: run validates first.  Whenever mid_axis is not of unit length, run
\* returns InvalidJob and the job's nine inputs and three outputs keep the
\* values they had before the call, whatever the weight, weight <= 0
\* included.
C9_RunValidatesFirst ==
    [][(RunStep /\ ~validate(job)) =>
          /\ runResult' = Err("InvalidJob")
          /\ job' = job]_vars

\* run was called on a job with a mid_axis of length 2 and weight 0 whose
\* outputs came from an earlier solve: it returned InvalidJob and the outputs
\* are still those of the solve.
C9_Witness ==
    /\ lastOp = "run"
    /\ runResult = Err("InvalidJob")
    /\ job.mid_axis = <<0, 0, 2 * Unit>>
    /\ job.weight = 0
    /\ job.start_joint_correction = SolvedJob.job.start_joint_correction
    /\ job.start_joint_correction # QUAT_UNIT
    /\ job.mid_joint_correction # QUAT_UNIT
    /\ job.reached

\* C10: for a job with unit mid_axis and weight <= 0, run returns success and
\* sets start_joint_correction and mid_joint_correction to the identity
\* rotation and reached to false, whatever the other inputs and the previous
\* outputs are.
C10_WeightShortcut ==
    [][(RunStep /\ validate(job) /\ job.weight <= 0) =>
          /\ runResult' = Ok(<<>>)
          /\ job'.start_joint_correction = QUAT_UNIT
          /\ job'.mid_joint_correction = QUAT_UNIT
          /\ job'.reached = FALSE]_vars

\* run was called with weight -0.1 on a job whose outputs were those of a
\* solve that reached its target: the outputs are identity, identity, false.
C10_Witness ==
    /\ lastOp = "run"
    /\ ops = 2
    /\ runResult = Ok(<<>>)
    /\ validate(job)
    /\ job.weight = -1
    /\ job.target = <<2 * Unit, 0, 0>>
    /\ job.mid_joint = AosMat4("rotation_z_frac_pi_2", Y_AXIS)
    /\ job.start_joint_correction = QUAT_UNIT
    /\ job.mid_joint_correction = QUAT_UNIT
    /\ ~job.reached

(***************************************************************************)
(* Properties of the solve.  The lengths the statements compare are the    *)
(* f32 values soften_target computes from the job (Lengths).  The jobs     *)
(* themselves are described by the numbers their inputs stand for: the     *)
(* bone lengths L1, L2 in units of 1/Unit, the squared raw start to target *)
(* distance Lt2 in units of Unit^-2, and da, ds in units of Unit^-2.       *)
(***************************************************************************)
L1(j) == Sqrt(Length2(Minus(j.mid_joint.t, j.start_joint.t)))

L2(j) == Sqrt(Length2(Minus(j.end_joint.t, j.mid_joint.t)))

Lt2(j) == Length2(Minus(j.target, j.start_joint.t))

\* chainLen * clamp(soften, 0, 1)
DA(j) == (L1(j) + L2(j)) * fx4_clamp_or_min(j.soften, 0, Unit)

\* chainLen - da
DS(j) == (L1(j) + L2(j)) * Unit - DA(j)

\* run has just returned success on a job of weight > 0
Solved ==
    /\ lastOp = "run"
    /\ runResult = Ok(<<>>)
    /\ job.weight > 0

\* The f32 lengths soften_target started from in the run just made.
Lengths == softened.lengths

\* Lt > da, as soften_target compares them
BeyondDa == F32Lt(Lengths.da, Lengths.start_target_original_ss_len)

\* Lt > |L1 - L2|, as soften_target compares them
BeyondBoneDiff == F32Lt(Lengths.bone_len_diff_abs, Lengths.start_target_original_ss_len)

\* The distance of the target soften_target passed on lies in
\* (|L1 - L2|, L1 + L2].
PostSoftenInsideTriangle ==
    /\ F32Lt(Lengths.bone_len_diff_abs, softened.start_target_ss_len)
    /\ ~F32Lt(Lengths.bones_chain_len, softened.start_target_ss_len)

\* C11 as claimed: after a successful run with weight > 0, reached is true
\* exactly when weight >= 1 and the post-soften target distance is greater
\* than |L1 - L2| and at most L1 + L2.
C11_ReachedIffPostSoftenInsideTriangle ==
    Solved => (job.reached <=> (job.weight >= Unit /\ PostSoftenInsideTriangle))

\* C11, amended: after a successful run with weight > 0, reached is true
\* exactly when weight >= 1 and the raw target distance Lt is greater than
\* |L1 - L2| and at most da = (L1 + L2) * clamp(soften, 0, 1).  A target
\* farther than da is not reached, also when softening brings it inside the
\* triangle.
C11_ReachedIffRawTargetWithinDa ==
    Solved =>
        (job.reached <=>
            /\ job.weight >= Unit
            /\ BeyondBoneDiff
            /\ ~BeyondDa)

\* test_soften: the chain of length 2 with soften 0.5 was run on the target
\* at distance 1.2, which softening moved to a distance inside the triangle,
\* and the target is not reached.
C11_Witness ==
    /\ Solved
    /\ job.weight = Unit
    /\ job.soften = 5
    /\ job.target = <<12, 0, 0>>
    /\ L1(job) = Unit
    /\ L2(job) = Unit
    /\ job.start_joint = AosMat4_identity
    /\ softened.start_target_ss.op = "rescaled"
    /\ PostSoftenInsideTriangle
    /\ ~job.reached

\* soften_target rescaled the target.
Rescaled == softened.start_target_ss.op = "rescaled"

\* soften_target passed the raw target vector and its squared length on.
PassedOn ==
    /\ softened.start_target_ss =
           [op |-> "vector", v |-> Lengths.start_target_original_ss]
    /\ softened.start_target_ss_len2 =
           [op |-> "number", n |-> Lengths.start_target_original_ss_len2]

\* C12 as claimed: the softening step rescales the target exactly when
\* Lt > da and |L1 - L2| < ds; in every other case the target vector and its
\* squared length are passed on unmodified.
C12_SoftensIffBeyondDaAndDiffBelowDs ==
    Solved =>
        /\ Rescaled <=>
              /\ BeyondDa
              /\ F32Lt(Lengths.bone_len_diff_abs, Lengths.ds)
        /\ ~Rescaled => PassedOn

\* C12, amended: the softening step rescales the target exactly when Lt > da
\* and ds > 0 (which make Lt > 0), whatever |L1 - L2| is; in every other
\* case the target vector and its squared length are passed on unmodified.
C12_SoftensIffBeyondDaAndDsPositive ==
    Solved =>
        /\ Rescaled <=>
              /\ BeyondDa
              /\ F32Lt(F32Zero, Lengths.ds)
        /\ ~Rescaled => PassedOn

\* A chain of unequal bones with ds <= |L1 - L2| was run on a target farther
\* than da, and the target was rescaled.
C12_Witness ==
    /\ Solved
    /\ Rescaled
    /\ L1(job) # L2(job)
    /\ L2(job) > 0
    /\ DS(job) > 0
    /\ Abs(L1(job) - L2(job)) * Unit >= DS(job)
    /\ ~F32Lt(Lengths.bone_len_diff_abs, Lengths.ds)
    /\ BeyondDa

\* recip as the run just made has left it: every argument of that run has
\* been seen.
LastChoice == RecipWith(recip, 0, 0)

\* The estimates of the calls: a larger argument has no larger an estimate.
NonIncreasing(calls) ==
    \A c, d \in calls : ~F32Lt(c.x, d.x) => ~F32Lt(d.r, c.r)

\* The softened distance does not decrease with the raw distance: no
\* sampled target at least as far as the job's is softened to less,
\* whatever the estimate of 1 / op4_y is there, as long as it is no larger for
\* the larger op4_y.  (1 / ds is the same call for both.)
NonDecreasingInLt ==
    \A setup \in {IKConstantSetup_new(job)} :
    \A t \in TargetSamples : \A l \in {soften_lengths(set_target(job, t), setup)} :
        (/\ ~F32Lt(l.start_target_original_ss_len, Lengths.start_target_original_ss_len)
         /\ softens(comp_mask(l)))
            => \A b \in (IF recip.estimate THEN RecipOffsets ELSE {0}) :
               \A sl \in {start_target_ss_len(l, RecipWith(recip, 0, b))} :
                   NonIncreasing({sl.recips[2], softened.recips[2]})
                       => ~F32Lt(sl.len, softened.start_target_ss_len)

\* 2^-11: twice the largest relative error of the CPU's estimate of a
\* reciprocal, 1.5 * 2^-12, rounded up.
EstimateError == F32(0, Two23, -34)

\* da less ds * 2^-11: how far below da the ratio of a build that estimates
\* 1 / 3^4 high can bring the softened distance.
DaLessEstimateError == F32Diff(Lengths.da, F32Mul(Lengths.ds, EstimateError))

\* C13 as claimed: whenever softening is applied, the softened target
\* distance da + ds - ds * (3^4 / (3 + alpha)^4) is at least da and strictly
\* less than the full chain length L1 + L2, however large Lt is, and it is
\* non-decreasing in Lt.
C13_SoftenedStrictlyBelowChain ==
    (Solved /\ Rescaled) =>
        /\ softened.start_target_ss_len.s = 0
        /\ ~F32Lt(softened.start_target_ss_len, Lengths.da)
        /\ F32Lt(softened.start_target_ss_len, Lengths.bones_chain_len)
        /\ NonDecreasingInLt

\* C13, amended: whenever softening is applied, the softened target distance
\* the code computes in f32 is at most the f32 sum da + ds (the full chain
\* length), at least da - ds * 2^-11 and non-decreasing in Lt; where recip is
\* the exact quotient it is at least da.  It does not stay strictly below
\* the chain length: for a large Lt, ds * ratio is less than half a unit in
\* the last place of da + ds and the softened distance is the chain length
\* itself.  Where recip is the estimate of the CPU, a ratio above 1 (Lt just
\* beyond da, 1 / 3^4 estimated high) brings it below da.
C13_SoftenedAtMostChain ==
    (Solved /\ Rescaled) =>
        /\ softened.start_target_ss_len.s = 0
        /\ ~F32Lt(F32Add(Lengths.da, Lengths.ds), softened.start_target_ss_len)
        /\ DaLessEstimateError.s = 0 =>
              ~F32Lt(softened.start_target_ss_len, DaLessEstimateError)
        /\ ~recip.estimate => ~F32Lt(softened.start_target_ss_len, Lengths.da)
        /\ NonDecreasingInLt

\* The chain of length 2 with soften 0.5 was run on the target at distance
\* 200: the softened distance is 2.0, the chain length.
C13_Witness ==
    /\ Solved
    /\ Rescaled
    /\ L1(job) = Unit
    /\ L2(job) = Unit
    /\ job.soften = 5
    /\ job.start_joint = AosMat4_identity
    /\ job.target = <<200 * Unit, 0, 0>>
    /\ softened.start_target_ss_len = F32(0, Two23, -22)
    /\ Lengths.bones_chain_len = F32(0, Two23, -22)

\* The three outputs of a job
Outputs(j) == <<j.start_joint_correction, j.mid_joint_correction, j.reached>>

\* C14: any weight >= 1 behaves as weight 1.  Whenever run solves a job of
\* weight w >= 1, the three outputs are those run gives the same job with
\* weight 1, and both corrections are the computed rotations made of
\* non-negative scalar part, with no interpolation toward the identity.
C14_WeightAboveOneAsOne ==
    [][(RunStep /\ job.weight >= Unit) =>
          /\ runResult' = Ok(<<>>)
          /\ Outputs(job') =
                 Outputs(run(set_weight(job, Unit), RecipWith(recip', 0, 0)).job)
          /\ job'.start_joint_correction.op = "quat_positive_w"
          /\ job'.mid_joint_correction.op = "quat_positive_w"
          /\ job'.mid_joint_correction.q =
                 compute_mid_joint(job, IKConstantSetup_new(job),
                                   softened'.start_target_ss_len2)]_vars

\* test_weight: the fixture with target (2, 0, 0) was run with weight 1.1;
\* the target is reached and the corrections are not interpolated.
C14_Witness ==
    /\ Solved
    /\ job.weight = 11
    /\ job.target = <<2 * Unit, 0, 0>>
    /\ job.soften = Unit
    /\ job.mid_joint = AosMat4("rotation_z_frac_pi_2", Y_AXIS)
    /\ job.end_joint = AosMat4("identity", <<Unit, Unit, 0>>)
    /\ job.start_joint = AosMat4_identity
    /\ job.reached
    /\ Outputs(job) = Outputs(run(set_weight(job, Unit), LastChoice).job)
    /\ job.start_joint_correction.op = "quat_positive_w"

(***************************************************************************)
(* What the rotation terms of a run come to where that can be told without *)
(* trigonometry: on a chain with a bone of length zero and on rotations    *)
(* whose cosine is computed.  The functions are those of crate::math:      *)
(*   - recip of 0 is +inf on every build, (a - b) * inf is NaN for a = b   *)
(*     and an infinity of the sign of a - b otherwise, and                 *)
(*     fx4_clamp_or_min takes NaN and -inf to its minimum;                 *)
(*   - quat_from_vectors of a zero vector is the identity;                 *)
(*   - quat_from_cos_angle(axis, cos) is (axis * sin, cos) of half the     *)
(*     angle: the identity for cosine 1;                                   *)
(*   - quat_from_axis_angle(axis, 0) is the identity.                      *)
(* A rotation counts as the identity when it is within the 2e-3 the tests  *)
(* allow, component by component.  What depends on the sine or cosine of   *)
(* an angle given in radians (a twist), on a rotated joint or on a NaN     *)
(* that fast_max may or may not pass on is left undecided.                 *)
(***************************************************************************)
\* mid_cos_angles of compute_mid_joint, lanes x and y, for the angle term a
\* of a chain with a bone of length zero, as -1 or 1.  half_rlen is
\* 0.5 * recip(sqrt(0)) = +inf, so a lane is (sum - v) * inf: NaN or -inf,
\* clamped to -1, for sum <= v, and +inf, clamped to 1, for sum > v.
mid_cos_angles(a) ==
    LET sum == F32Add(a.start_mid_ss_len2, a.mid_end_ss_len2)
        \* the number the start_target_ss_len2 term stands for
        start_target_ss_len2 ==
            IF a.start_target_ss_len2.op = "number" THEN a.start_target_ss_len2.n
            ELSE F32Mul(a.start_target_ss_len2.len, a.start_target_ss_len2.len)
        lane(v) == IF ~F32Lt(v, sum) THEN -1 ELSE 1
    IN  [x |-> lane(start_target_ss_len2), y |-> lane(a.start_end_ss_len2)]

\* What the mid_rot_ms term q comes to.  With a bone of length zero both
\* angles are acos of -1 or of 1: where they are equal, mid_angles_diff is 0,
\* or 2 pi when bent_side_flip turns the sign of the initial angle, and the
\* rotation is the identity; where they differ it is a half turn.
mid_rot_value(q) ==
    IF F32Mul(q.angle.start_mid_ss_len2, q.angle.mid_end_ss_len2).m # 0
    THEN "undecided"
    ELSE IF \E c \in {mid_cos_angles(q.angle)} : c.x = c.y THEN "identity"
    ELSE "rotation"

\* The end_to_target_rot_ss term q, quat_from_vectors(start_end_ss_final,
\* start_target_ss), is the identity: one of the two vectors is zero.
\* start_end_ss_final is start_mid_ss + mid_end_ss_final, the latter the
\* mid-space bone mid_end_ms turned about; mid_end_ms is exactly zero when the
\* mid joint is a translation to the place of the end joint.
end_to_target_is_identity(q) ==
    LET IsZero(v) == \A i \in 1..3 : v[i].m = 0
    IN  \/ q.to.op = "vector" /\ IsZero(q.to.v)
        \/ /\ IsZero(q.from.a)
           /\ q.from.b.v.v.v.inv.rot = "identity"
           /\ q.from.b.v.v.v.p = q.from.b.v.v.v.inv.t

\* math::vec3_cross on f32 lanes: a.yzx * b.zxy - a.zxy * b.yzx
vec3_cross_f32(a, b) ==
    [i \in 1..3 |->
        F32Diff(F32Mul(a[(i % 3) + 1], b[((i + 1) % 3) + 1]),
                F32Mul(a[((i + 1) % 3) + 1], b[(i % 3) + 1]))]

\* math::vec3_dot_s on f32 lanes: x * x' + y * y' + z * z'
vec3_dot_s(a, b) ==
    LET Plus(x, y) == F32Diff(x, F32Neg(y))
    IN  Plus(Plus(F32Mul(a[1], b[1]), F32Mul(a[2], b[2])), F32Mul(a[3], b[3]))

\* rotate_plane_cos_angle of compute_start_joint (lines 417-443), clamped,
\* for the three vectors it is computed from; oy and oz pick the estimates
\* of recip for the two lengths where the build estimates.  With a normal of
\* length zero the cosine is 0 * inf, not a number.
rotate_plane_cos_angle(start_target_ss, pole_ss, joint_plane_normal_ss, rc, oy, oz) ==
    LET ref_plane_normal_ss == vec3_cross_f32(start_target_ss, pole_ss)
        ref_plane_normal_ss_len2 == vec3_length2_s(ref_plane_normal_ss)
        joint_plane_normal_ss_len2 == vec3_length2_s(joint_plane_normal_ss)
        rsqrts_y == f32x4_recip(F32Sqrt(ref_plane_normal_ss_len2), rc, oy)
        rsqrts_z == f32x4_recip(F32Sqrt(joint_plane_normal_ss_len2), rc, oz)
        \* v.fast_max(NEG_ONE).fast_min(ONE) of a number v
        clamped(v) == IF F32Lt(F32One, v) THEN F32(v.s, Two23, -23) ELSE v
    IN  IF ref_plane_normal_ss_len2.m = 0 \/ joint_plane_normal_ss_len2.m = 0
        THEN [number |-> FALSE, cos |-> F32Zero]
        ELSE [number |-> TRUE,
              cos |-> clamped(
                  vec3_dot_s([i \in 1..3 |-> F32Mul(ref_plane_normal_ss[i], rsqrts_y)],
                             [i \in 1..3 |-> F32Mul(joint_plane_normal_ss[i],
                                                    rsqrts_z)]))]

\* The vectors of the rotate_plane_ss term rp are known as numbers: the
\* start and the mid joint are translations, so that pole_ss is the pole
\* vector and mid_axis_ss the mid_axis, the target was not rescaled, and
\* end_to_target_rot_ss, the identity, leaves mid_axis_ss as it is.
PlaneVectorsKnown(rp) ==
    /\ rp.start_target_ss.op = "vector"
    /\ rp.pole_ss.m.m.rot = "identity"
    /\ rp.joint_plane_normal_ss.v.m.m.rot = "identity"
    /\ rp.joint_plane_normal_ss.v.v.m.rot = "identity"
    /\ end_to_target_is_identity(rp.joint_plane_normal_ss.q)

\* The cosines the rotate_plane_ss term rp can have on the build the job
\* runs on: one where recip divides, one for each estimate the CPU may give
\* for the two lengths where it estimates.
PlaneCosines(rp) ==
    {rotate_plane_cos_angle(rp.start_target_ss.v, F32Vec(rp.pole_ss.v),
                            F32Vec(rp.joint_plane_normal_ss.v.v.v),
                            RecipWith(recip, 0, 0), oy, oz) :
        oy, oz \in (IF recip.estimate THEN RecipOffsets ELSE {0})}

\* 1 - 2^-17: quat_from_cos_angle of a cosine from here on is within 2e-3 of
\* the identity (the sine of half the angle is at most 2^-9).
COS_IDENTITY == F32(0, Two24 - 128, -24)

\* 1/2: a rotation by 60 degrees or more
COS_ROTATION == F32(0, Two23, -24)

\* The cosine c is at least the positive number t.
CosAtLeast(c, t) == c.s = 0 /\ ~F32Lt(c, t)

\* The cosine c is at most the positive number t.
CosAtMost(c, t) == c.s = 1 \/ ~F32Lt(t, c)

\* What quat_from_cos_angle comes to on the cosines cs a term can have.
quat_from_cos_angle_value(cs) ==
    IF \E c \in cs : ~c.number THEN "undecided"
    ELSE IF \A c \in cs : CosAtLeast(c.cos, COS_IDENTITY) THEN "identity"
    ELSE IF \A c \in cs : CosAtMost(c.cos, COS_ROTATION) THEN "rotation"
    ELSE "undecided"

\* What the start_rot_ss term q comes to: end_to_target_rot_ss alone for a
\* target at the start joint, else the plane rotation times it, with the
\* twist in between for a twist_angle other than 0.
start_rot_value(q) ==
    IF q.op = "quat_from_vectors"
    THEN (IF end_to_target_is_identity(q) THEN "identity" ELSE "undecided")
    ELSE IF q.a.op = "quat_from_cos_angle" /\ PlaneVectorsKnown(q.a)
    THEN quat_from_cos_angle_value(PlaneCosines(q.a))
    ELSE "undecided"

\* The rotation the correction c was made from, for a correction
\* weight_output left: past quat_positive_w and the interpolation.
WeightedRot(c) == IF c.op = "normalized_lerp" THEN c.b.q ELSE c.q

\* What the correction c comes to, v being the value of the rotation it was
\* made from: QUAT_UNIT, the rotation with w made positive, or the
\* normalized interpolation from the identity towards it by alpha, which
\* stays a rotation for an alpha of 0.1 or more.
correction_value(c, v) ==
    IF c.op = "normalized_lerp" /\ v = "rotation" /\ c.alpha < 1 THEN "undecided"
    ELSE v

\* What the start correction of the job comes to.
start_joint_correction_value ==
    IF job.start_joint_correction.op = "QUAT_UNIT" THEN "identity"
    ELSE correction_value(job.start_joint_correction,
                          start_rot_value(WeightedRot(job.start_joint_correction)))

\* What the mid correction of the job comes to.
mid_joint_correction_value ==
    IF job.mid_joint_correction.op = "QUAT_UNIT" THEN "identity"
    ELSE correction_value(job.mid_joint_correction,
                          mid_rot_value(WeightedRot(job.mid_joint_correction)))

\* run has just returned on a job of unit mid_axis whose joints are
\* translations to one place.
RanOnCoincident ==
    /\ lastOp = "run"
    /\ validate(job)
    /\ Coincident(job)
    /\ job.start_joint.rot = "identity"
    /\ job.mid_joint.rot = "identity"
    /\ job.end_joint.rot = "identity"

RefPlaneNormal(j) ==
    LET t == Minus(j.target, j.start_joint.t)
        p == j.pole_vector
    IN  <<t[2] * p[3] - t[3] * p[2], t[3] * p[1] - t[1] * p[3],
          t[1] * p[2] - t[2] * p[1]>>

\* a and b are not zero and point the same way.
SameDirection(a, b) ==
    /\ a[2] * b[3] - a[3] * b[2] = 0
    /\ a[3] * b[1] - a[1] * b[3] = 0
    /\ a[1] * b[2] - a[2] * b[1] = 0
    /\ a[1] * b[1] + a[2] * b[2] + a[3] * b[3] > 0

\* a and b are not zero and at a right angle.
Perpendicular(a, b) ==
    /\ a # ZERO
    /\ b # ZERO
    /\ a[1] * b[1] + a[2] * b[2] + a[3] * b[3] = 0

\* The start_rot_ss term q is made as lines 414-451 make it for the job j:
\* the plane rotation times an identity end_to_target_rot_ss, and between
\* the two, for a twist_angle other than 0, the twist by that angle.
AlignsPlaneAndTwists(q, j) ==
    /\ q.op = "quat_mul"
    /\ q.b.op = "quat_from_vectors"
    /\ end_to_target_is_identity(q.b)
    /\ IF j.twist_angle = 0 THEN q.a.op = "quat_from_cos_angle"
       ELSE /\ q.a.op = "quat_mul"
            /\ q.a.a.op = "quat_from_axis_angle"
            /\ q.a.a.angle = j.twist_angle
            /\ q.a.b.op = "quat_from_cos_angle"

\* 1 - 2^-10: what the two estimates of recip, each within 1.5 * 2^-12 of
\* the quotient, leave of a cosine of 1
COS_ESTIMATED == F32(0, Two24 - 16384, -24)

\* 2^-20: what rounding leaves of a cosine of 0
COS_RIGHT_ANGLE == F32(0, Two23, -43)

Inputs(j) ==
    <<j.target, j.mid_axis, j.pole_vector, j.twist_angle, j.soften, j.weight,
      j.start_joint, j.mid_joint, j.end_joint>>

\* The job j holding the outputs o in place of its own.
WithOutputs(j, o) ==
    [j EXCEPT !.start_joint_correction = o[1],
              !.mid_joint_correction = o[2],
              !.reached = o[3]]

\* Outputs a job can hold before a run: those of a new job or of clear_outs,
\* and those the solve of test_weight left.
PreviousOutputs == {Outputs(IKTwoBoneJob_default), Outputs(SolvedJob.job)}

\* C16: run is stateless across invocations.  The outputs a successful run
\* leaves are those run leaves on a job of the same nine inputs whatever
\* outputs that job held before, so they do not depend on the history of
\* runs, setters and clears behind the job; and a run that follows a run,
\* with no setter between them, leaves the three outputs unchanged.
C16_RunIsStateless ==
    [][RunStep =>
          /\ runResult' = Ok(<<>>) =>
                \A o \in PreviousOutputs :
                    /\ Inputs(WithOutputs(job, o)) = Inputs(job)
                    /\ Outputs(run(WithOutputs(job, o), RecipWith(recip', 0, 0)).job) =
                           Outputs(job')
          /\ lastOp = "run" => Outputs(job') = Outputs(job)]_vars

\* A successful interpolating run (weight 0.5) as the third operation on a
\* job, whose outputs differ from both the sampled previous outputs.
C16_Witness ==
    /\ lastOp = "run"
    /\ ops = MaxOps
    /\ runResult = Ok(<<>>)
    /\ job.weight = 5
    /\ Outputs(job) \notin PreviousOutputs

\* The inputs other than the i-th are, after the step, what they were.
OtherInputsKept(i) ==
    \A k \in 1..9 : k # i => Inputs(job')[k] = Inputs(job)[k]

\* The step is a setter of the i-th input, called with a value of samples:
\* the input holds it, and nothing else of the job has changed.
SetsOnly(i, samples) ==
    /\ Inputs(job')[i] \in samples
    /\ OtherInputsKept(i)
    /\ Outputs(job') = Outputs(job)

\* The step has reset the outputs numbered in cleared (1 the start
\* correction, 2 the mid correction, 3 reached) and nothing else of the job.
ClearsOnly(cleared) ==
    /\ Inputs(job') = Inputs(job)
    /\ \A k \in 1..3 :
          Outputs(job')[k] =
              IF k \in cleared THEN Outputs(IKTwoBoneJob_default)[k]
              ELSE Outputs(job)[k]

\* C17: every mutator of the job other than run changes exactly its own
\* field.  Each of the nine setters changes the input it names and leaves
\* the other eight inputs and the three outputs as they were; each of the
\* three single clears resets its own output (identity, identity, false) and
\* leaves the other two outputs and the inputs; clear_outs resets the three
\* outputs and no input.
C17_MutatorsChangeOwnFieldOnly ==
    [][/\ SetTarget => SetsOnly(1, TargetSamples)
       /\ SetMidAxis => SetsOnly(2, MidAxisSamples)
       /\ SetPoleVector => SetsOnly(3, PoleVectorSamples)
       /\ SetTwistAngle => SetsOnly(4, TwistAngleSamples)
       /\ SetSoften => SetsOnly(5, SoftenSamples)
       /\ SetWeight => SetsOnly(6, WeightSamples)
       /\ SetStartJoint => SetsOnly(7, StartJointSamples)
       /\ SetMidJoint => SetsOnly(8, MidJointSamples)
       /\ SetEndJoint => SetsOnly(9, EndJointSamples)
       /\ ClearStartJointCorrection => ClearsOnly({1})
       /\ ClearMidJointCorrection => ClearsOnly({2})
       /\ ClearReached => ClearsOnly({3})
       /\ ClearOuts => ClearsOnly({1, 2, 3})]_vars

\* set_target has just moved the target of a job that still holds the
\* outputs of a run that reached: corrections off the identity, reached true.
C17_Witness ==
    /\ lastOp = "set_target"
    /\ job.target # SolvedJob.job.target
    /\ job.reached
    /\ job.start_joint_correction # QUAT_UNIT
    /\ job.mid_joint_correction # QUAT_UNIT

(***************************************************************************)
(* Properties of the Animation a load returned.                            *)
(***************************************************************************)
Accessors == DOMAIN NothingSeen

\* The six fields of the Animation a.
Fields(a) == <<a.duration, a.num_tracks, a.name, a.translations, a.rotations, a.scales>>

\* C18: a built Animation is immutable.  From the return of the load on,
\* every step (each is a call of duration, num_tracks, num_aligned_tracks,
\* num_soa_tracks, name, translations, rotations or scales by some reader)
\* leaves the six fields as they were, and whatever the order of the calls
\* every accessor has shown all its callers one and the same outcome.
C18_LoadedAnimationIsImmutable ==
    [][Loaded =>
          /\ Loaded'
          /\ Fields(result'.value) = Fields(result.value)
          /\ \A a \in Accessors : Cardinality(seen'[a]) <= 1]_vars

\* Two calls of rotations() on an Animation that has rotation keys: one
\* outcome observed, the keys as loaded.
C18_Witness ==
    /\ Loaded
    /\ reads = MaxReads
    /\ \A a \in Accessors : seen[a] # {} <=> a = "rotations"
    /\ seen.rotations = {Ok(result.value.rotations)}
    /\ result.value.rotations # <<>>

\* v is a multiple of 4.
IsMultipleOf4(v) == v[1] % 4 = 0

\* v is the smallest multiple of 4 that is >= n: n + d for the one d of 0..3
\* that makes it a multiple of 4, the sum not leaving the range of usize.
SmallestMultipleOf4AtLeast(n, v) ==
    /\ IsMultipleOf4(v)
    /\ \E d \in 0..3 : usize_carry(n, 1, d) = [v |-> v, overflow |-> FALSE]

\* v = 4 * s
FourTimes(s, v) == IsMultipleOf4(v) /\ usize_div_4(v) = s

\* C19: for every Animation a load returned, whatever 32 bit signed
\* track_count the archive carried, num_tracks + 3 does not overflow, every
\* call of num_aligned_tracks() returns the smallest multiple of 4 that is
\* >= num_tracks(), and every call of num_soa_tracks() returns a quarter of
\* that multiple.
C19_AlignedTracksRoundUpWithoutOverflow ==
    Loaded =>
        LET n == result.value.num_tracks
        IN  /\ (seen.num_aligned_tracks # {} \/ seen.num_soa_tracks # {}) =>
                   ~usize_carry(n, 1, 3).overflow
            /\ \A o \in seen.num_aligned_tracks :
                   /\ o.tag = "Ok"
                   /\ SmallestMultipleOf4AtLeast(n, o.value)
            /\ \A o \in seen.num_soa_tracks :
                   /\ o.tag = "Ok"
                   /\ \E v \in {usize_carry(n, 1, d).v : d \in 0..3} :
                          /\ SmallestMultipleOf4AtLeast(n, v)
                          /\ FourTimes(o.value, v)

(***************************************************************************)
(* Ranges of the fields of a key.                                          *)
(***************************************************************************)
\* The indices decompress and simd_decompress compute from the key k,
\* counted from 0 as in the code: the row of MAPPING, the entries of
\* k.value read through that row, and the component that is restored.
MappingRowIndex(k) == largest(k)

ValueIndices(k) == {MAPPING[largest(k) + 1][j] : j \in 1..4}

ComponentIndex(k) == largest(k)

\* C20: for every QuaternionKey, made by QuaternionKey::new from any 16-bit
\* field or read from any wire fields, largest() is in 0..3, sign() in 0..1
\* and track() in 0..8191; so the row index into the 4-row MAPPING, the
\* indices into the 3-entry value array and the index into the 4-entry
\* component array that decompress and simd_decompress use are in bounds,
\* and the decompressed key has its four components.
C20_KeyFieldsInRange ==
    keyOrigin # "none" =>
        /\ largest(key) \in 0..3
        /\ sign(key) \in 0..1
        /\ track(key) \in 0..8191
        /\ MappingRowIndex(key) \in 0..(Len(MAPPING) - 1)
        /\ \A r \in 1..Len(MAPPING) : Len(MAPPING[r]) = 4
        /\ ValueIndices(key) \subseteq 0..(Len(key.value) - 1)
        /\ ComponentIndex(key) \in 0..3
        /\ quat # <<>> => DOMAIN quat = 1..4

\* The key of QuaternionKey::new with all 16 bits set (track 8191, largest 3,
\* sign 1) has been decompressed.
C20_Witness ==
    /\ keyOrigin = "new"
    /\ key.bit_field = 65535
    /\ largest(key) = 3
    /\ quat # <<>>

(***************************************************************************)
(* The key sequences of a loaded Animation.                                *)
(***************************************************************************)
\* <<track, ratio>> of each key of a sequence, ratios in thousandths.
Float3TrackRatios(keys) == [i \in DOMAIN keys |-> <<keys[i].track, keys[i].ratio>>]

QuaternionTrackRatios(keys) == [i \in DOMAIN keys |-> <<track(keys[i]), keys[i].ratio>>]

\* The sequence tr of <<track, ratio>> has its boundary keys: the first and
\* the last key of every track in it sit at ratio 0 and ratio 1, and so do
\* the first and the last key of the sequence.
SentinelsPresent(tr) ==
    /\ \A t \in {tr[i][1] : i \in DOMAIN tr} :
          LET of_t == {i \in DOMAIN tr : tr[i][1] = t}
              first == CHOOSE i \in of_t : \A k \in of_t : i <= k
              last == CHOOSE i \in of_t : \A k \in of_t : i >= k
          IN  tr[first][2] = 0 /\ tr[last][2] = 1000
    /\ tr # <<>> => (tr[1][2] = 0 /\ tr[Len(tr)][2] = 1000)

\* C21: every Animation a successful load returned has the boundary keys in
\* each of translations, rotations and scales: every track's keys start at
\* ratio 0 and end at ratio 1, and the first key of each sequence has ratio
\* 0, the last ratio 1.
C21_LoadedKeysHaveSentinels ==
    Loaded =>
        /\ SentinelsPresent(Float3TrackRatios(result.value.translations))
        /\ SentinelsPresent(QuaternionTrackRatios(result.value.rotations))
        /\ SentinelsPresent(Float3TrackRatios(result.value.scales))

(***************************************************************************)
(* Further properties of the solve.                                        *)
(***************************************************************************)
\* The softened target is no farther from the start joint than the raw one,
\* both as soften_target holds them in f32.
SoftenedNoFartherThanRaw ==
    ~F32Lt(Lengths.start_target_original_ss_len, softened.start_target_ss_len)

\* C22 as claimed: whenever the softening step rescales the target, the
\* softened target distance is no greater than the raw target distance Lt.
C22_SoftenedNeverBeyondRaw ==
    (Solved /\ Rescaled) => SoftenedNoFartherThanRaw

\* 0.38 in f32.  The softened distance is da + ds * (1 - (3 / (alpha + 3))^4)
\* and the raw one da + ds * alpha: the quartic lies above alpha up to an
\* alpha of about 0.378 and below it from there on, at 0.38 by 0.0006, more
\* than the estimates of recip (1.5 * 2^-12 each) and the rounding can move
\* the ratio.
ALPHA_PAST_BULGE == F32Quot(38, 100, 0)

\* The raw target distance Lt lies at least 0.38 ds beyond da: alpha, the
\* quotient (Lt - da) / ds, is at least 0.38.
RawTargetPastBulge ==
    ~F32Lt(F32Sub(Lengths.start_target_original_ss_len, Lengths.da),
           F32Mul(Lengths.ds, ALPHA_PAST_BULGE))

\* C22, amended: whenever the softening step rescales a target whose raw
\* distance Lt lies at least 0.38 ds beyond da (alpha >= 0.38), the softened
\* target distance is no greater than Lt.  Nearer da the softened target can
\* be the farther one: the chain of length 2 with soften 0.5 moves the
\* target at distance 1.2 (alpha 0.2) to distance 1.2275.
C22_SoftenedNotBeyondRawPastBulge ==
    (Solved /\ Rescaled /\ RawTargetPastBulge) => SoftenedNoFartherThanRaw

\* The chain of length 2 with soften 0 was run on the target at distance 0.8,
\* short of the chain length: alpha is 0.4, and softening brought the target
\* nearer.
C22_Witness ==
    /\ Solved
    /\ Rescaled
    /\ RawTargetPastBulge
    /\ L1(job) = Unit
    /\ L2(job) = Unit
    /\ job.soften = 0
    /\ job.start_joint = AosMat4_identity
    /\ job.target = <<8, 0, 0>>
    /\ F32Lt(Lengths.start_target_original_ss_len, Lengths.bones_chain_len)
    /\ F32Lt(softened.start_target_ss_len, Lengths.start_target_original_ss_len)

\* The raw target distance Lt of the job lies in (|L1 - L2|, da].
RawTargetWithinDa ==
    /\ F32Lt(Lengths.bone_len_diff_abs, Lengths.start_target_original_ss_len)
    /\ ~F32Lt(Lengths.da, Lengths.start_target_original_ss_len)

\* The chain of test_soften: two bones of length 1 from a start joint at the
\* origin, soften 0.5.
SoftenTestChain ==
    /\ L1(job) = Unit
    /\ L2(job) = Unit
    /\ job.start_joint = AosMat4_identity
    /\ job.soften = 5

\* C23: after a successful run with weight > 0, reached is true exactly when
\* weight >= 1 and |L1 - L2| < Lt <= (L1 + L2) * clamp(soften, 0, 1), Lt the
\* raw distance from the start joint to the target.  So reached is false
\* whenever weight < 1, whenever the target was rescaled, whenever
\* soften <= 0 and whenever Lt is beyond the soften fraction of the chain;
\* the chain of length 2 with soften 0.5 and weight >= 1 reaches the targets
\* at distance 0.8 and 1.0 and does not reach those at 1.2 and 2.0.
C23_ReachedOnRawDistance ==
    Solved =>
        /\ job.reached = (job.weight >= Unit /\ RawTargetWithinDa)
        /\ job.weight < Unit => ~job.reached
        /\ Rescaled => ~job.reached
        /\ job.soften <= 0 => ~job.reached
        /\ F32Lt(Lengths.da, Lengths.start_target_original_ss_len) => ~job.reached
        /\ (SoftenTestChain /\ job.weight >= Unit) =>
              /\ Lt2(job) \in {8 * 8, Unit * Unit} => job.reached
              /\ Lt2(job) \in {12 * 12, 4 * Unit * Unit} => ~job.reached

\* test_soften: the chain of length 2 with soften 0.5 and weight 1 was run on
\* the target at distance 0.8 and reached it.
C23_Witness ==
    /\ Solved
    /\ SoftenTestChain
    /\ job.weight = Unit
    /\ job.target = <<8, 0, 0>>
    /\ ~Rescaled
    /\ job.reached

(***************************************************************************)
(* The placement of the stored values by decompress.                       *)
(***************************************************************************)
\* The three slots other than slot L, in increasing order; slots counted
\* from 1 (x, y, z, w).
SlotsBut(L) == [i \in 1..3 |-> IF i < L THEN i ELSE i + 1]

\* C24: decompress places the stored values by a fixed table indexed by
\* largest.  For largest = L the three slots other than L, in the order
\* x, y, z, w, hold value[0], value[1], value[2], each times
\* 1 / (32767 sqrt 2); slot L holds the restored component, positive when
\* sign = 0 and negative when sign = 1; and the restored component is made
\* of the three stored values once each: the value the table first maps onto
\* slot L is zeroed before the dot product.
C24_ValuesPlacedByLargest ==
    quat # <<>> =>
        LET L == largest(key) + 1
        IN  /\ \A i \in 1..3 : quat[SlotsBut(L)[i]] = Lin(key.value[i])
            /\ quat[L].lin = 0
            /\ quat[L].ww0 = F32Max(SMALL_F32, F32OneMinus(StoredDot(key)))
            /\ F32(0, quat[L].f32.m, quat[L].f32.e) = F32Sqrt(quat[L].ww0)
            /\ quat[L].f32.m # 0
            /\ quat[L].f32.s = sign(key)

\* The first rotation key of the crossarms fixture (largest 2, sign 1, three
\* values that are not zero) was read and decompressed: z is the restored
\* component and is negative, x, y, w hold the stored values.
C24_Witness ==
    /\ keyOrigin = "read"
    /\ wire = <<0, 2, 1, <<-22775, -23568, 21224>> >>
    /\ quat # <<>>
    /\ quat[3].f32.s = 1
    /\ quat[4] = Lin(21224)

(***************************************************************************)
(* The divisors of the softening branch.                                   *)
(***************************************************************************)
\* The divisor of ratio = op4.x / op4.y in the run just made:
\* op4.y = (alpha + 3)^4 with alpha = (len - da) / ds, in f32.
RatioDivisor ==
    LET alpha == F32Mul(F32Sub(Lengths.start_target_original_ss_len, Lengths.da),
                        softened.recips[1].r)
        op_y == F32Add(alpha, THREE)
    IN  F32Mul(F32Mul(op_y, op_y), F32Mul(op_y, op_y))

\* C25: whenever the softening branch of soften_target runs, its divisors
\* are strictly positive: ds > 0 and the raw target distance Lt > 0, as the
\* code holds them in f32 and as exact numbers, and the divisor of the
\* ratio, (alpha + 3)^4, is at least 3^4.  No division of the branch is by
\* zero, whatever soften, the bone lengths (a bone of length zero included)
\* and the target are.
C25_SofteningDivisorsPositive ==
    (Solved /\ Rescaled) =>
        /\ F32Lt(F32Zero, Lengths.ds)
        /\ Lengths.ds.s = 0
        /\ F32Lt(F32Zero, Lengths.start_target_original_ss_len)
        /\ Lengths.start_target_original_ss_len.s = 0
        /\ DS(job) > 0
        /\ Lt2(job) > 0
        /\ ~F32Lt(RatioDivisor, F32FromInt(81))
        /\ RatioDivisor.s = 0

\* A chain whose second bone has length zero was run with soften 0 on a
\* target away from the start joint, and the target was rescaled.
C25_Witness ==
    /\ Solved
    /\ Rescaled
    /\ L1(job) > 0
    /\ L2(job) = 0
    /\ job.soften = 0
    /\ Lt2(job) > 0

(***************************************************************************)
(* Wire fields out of range.                                               *)
(***************************************************************************)
\* What QuaternionKey::read returns on an archive holding the one rotation
\* key w.
ReadOf(w) == QuaternionKey_read(WireQuaternionKey("rotations", 1, w), 1, "rotations", 1)

\* The wire key w with the bits read drops cleared.
LowBits(w) == <<w[1] % 8192, w[2] % 4, w[3] % 2, w[4]>>

\* Some field of the wire key w is out of range.
OutOfRange(w) == w[1] >= 8192 \/ w[2] >= 4 \/ w[3] >= 2

\* C26: reading a rotation key never rejects wire fields out of range.  A
\* wire key, also one with track >= 8192, largest >= 4 or sign >= 2, is read
\* with success, and the key holds the low 13 bits of the wire track, the
\* low 2 bits of the wire largest and the low bit of the wire sign; it equals
\* the key read from the wire key with the high bits cleared, so the wire
\* fields of a key out of range cannot be told from the key.
C26_ReadKeepsLowBits ==
    keyOrigin = "read" =>
        /\ ReadOf(wire).ok
        /\ key = ReadOf(wire).key
        /\ track(key) = wire[1] % 8192
        /\ largest(key) = wire[2] % 4
        /\ sign(key) = wire[3] % 2
        /\ key.value = wire[4]
        /\ ReadOf(LowBits(wire)).ok
        /\ key = ReadOf(LowBits(wire)).key
        /\ OutOfRange(wire) => LowBits(wire) # wire

\* The wire key of track 8197, largest 6 and sign 3 was read: the key has
\* track 5, largest 2 and sign 1, as the key read from those fields has.
C26_Witness ==
    /\ keyOrigin = "read"
    /\ wire[1] = 8197
    /\ wire[2] = 6
    /\ wire[3] = 3
    /\ track(key) = 5
    /\ largest(key) = 2
    /\ sign(key) = 1
    /\ key = ReadOf(<<5, 2, 1, wire[4]>>).key

(***************************************************************************)
(* The target at the start joint.                                          *)
(***************************************************************************)
\* The outputs run gives the job just run with pole vector p and twist
\* angle tw in place of its own.
OutputsWith(p, tw) ==
    Outputs(run(set_twist_angle(set_pole_vector(job, p), tw), LastChoice).job)

\* C27: when the target coincides with the start joint (Lt = 0), softening
\* is not applied and the start rotation is the shortest arc alone, with no
\* plane alignment and no twist: the outputs of run are those of the same job
\* with any other pole_vector and twist_angle.
C27_TargetAtStartIgnoresPoleAndTwist ==
    (Solved /\ Lt2(job) = 0) =>
        /\ ~Rescaled
        /\ PassedOn
        /\ ~softened.start_target_ss_len2_gt_zero
        /\ WeightedRot(job.start_joint_correction).op = "quat_from_vectors"
        /\ \A p \in PoleVectorSamples, tw \in TwistAngleSamples :
               OutputsWith(p, tw) = Outputs(job)

\* test_zero_length_start_target, with pole vector +X and a twist of 0.5:
\* the target at the start joint was solved with weight 1.
C27_Witness ==
    /\ Solved
    /\ Lt2(job) = 0
    /\ job.target = ZERO
    /\ job.start_joint = AosMat4_identity
    /\ job.mid_joint = AosMat4("rotation_z_frac_pi_2", Y_AXIS)
    /\ job.end_joint = AosMat4("identity", <<Unit, Unit, 0>>)
    /\ job.pole_vector = X_AXIS
    /\ job.twist_angle = 5
    /\ job.weight = Unit
    /\ WeightedRot(job.start_joint_correction).op = "quat_from_vectors"

====
